---- MODULE Spec2Model ----
(***************************************************************************)
(* vedoTk: the selection engine (SurfaceSelection / SurfaceMesh), the two  *)
(* point-selection viewers built on it (vedoTk.apps.MeshSelection and       *)
(* vedoTk.MeshPointsSelection) with their undo/redo history, and save().    *)
(*                                                                         *)
(* Ids are 0-based as in the code; TLA+ sequences are 1-based, so element  *)
(* i of a numpy array a is a[i + 1] here.  history_idx keeps the code's     *)
(* 0-based value.                                                          *)
(***************************************************************************)
EXTENDS Integers, Sequences, FiniteSets, TLC

\* Number of vertices of the surface mesh (surface.nvertices).
NSurf == 2
\* Longest history the model lets the viewer grow (the code's list is unbounded).
MaxHist == 3
\* Most operations of a scripted undo/redo round trip.
MaxOps == 3
\* Largest numeric suffix save() may append in the model (selection_<k>.npy).
MaxSuffix == 2
\* Number of cells of the mesh of the cell viewer (mesh.ncells).
NCells == 2
\* Most registration runs started in one session of the registration application.
MaxRuns == 2
\* Last step index at which a rigid registration is not done (30 in the code).
RigidLast == 1
\* Last step index at which a non-rigid registration is not done (200 in the code).
NonRigidLast == 2
\* Most calls of VisiblePoints.extract() on one extractor.
MaxCalls == 3
\* Most elements (vertices, or cells) of a mesh handed to the proximity filter.
NElem == 2
\* Largest distance between a pick position and an element.
MaxDist == 2
\* Largest selection radius the slider gives.
MaxRadius == 1
\* Number of vertices of a tetrahedral mesh: the surface vertices plus one interior vertex.
NVol == NSurf + 1
MaxFiles == 2

VARIABLES
    viewer,       \* "apps": vedoTk.apps.MeshSelection, "points": vedoTk.MeshPointsSelection,
                  \* "cells": vedoTk.MeshCellsSelection
    launched,     \* launch() has reached show(): events are delivered
    idx_tetra,    \* SurfaceSelection.__idx_tetra; << >> stands for None (surface mesh)
    idx,          \* SurfaceSelection.__idx, the internal selection
    cursor,       \* __cursor, the ids last resolved by a pick
    history,      \* __history, the list of snapshots
    history_idx,  \* __history_idx
    draw_mode,    \* __draw_mode
    lastOp,       \* the handler that ran last (position of the event loop)
    pushed,       \* for each history entry, the internal selection when it was pushed
    dropped,      \* the number of snapshots the last handler discarded from the history
    script,       \* the position in a scripted scenario (see the scenario specifications)
    files,        \* the directory of the mesh: the array held by each existing file
    selection_file, \* __selection_file, the file the viewer was constructed from (or None)
    log,          \* the last call of save(): its arguments, the files it counted, the file it chose
    selection,    \* MeshCellsSelection.__selection, a set of cell ids
    undo,         \* MeshCellsSelection.__undo, the cells the last left click added
    tab,          \* _QtApp.tabs.currentIndex(): 0 Selection, 1 Registration
    register_button,   \* _QtApp.register_button.isEnabled()
    source_selection,  \* _Selection.__source_selection, the ids of the source markers
    target_selection,  \* _Selection.__target_selection, the ids of the target markers
    markers,      \* _Registration.source_markers_idx and target_markers_idx (or None)
    timer,        \* the registration run: whether its timer callback is installed, and idx_step
    warned,       \* the last handler opened the 'Mismatching number of markers' box
    extractor,    \* a VisiblePoints object, the thread that calls extract() and its worker thread
    probe,        \* a mesh with its normals, the selection radius, the last pick and what the
                  \* proximity filter returned for it
    universe,     \* a selection engine constructed over a mesh of any size, empty meshes
                  \* included: the number of its elements and its selection
    legacy,       \* the MeshSelection of src/mesh_selection.py: selected_cells, id_cursor,
                  \* drag_mode
    folder        \* a FolderInspection (vedoTk/apps/folder_inspection.py): the directory it
                  \* was constructed on, its lists, its index and what the plotter shows

\* The state of a viewer and its selection engine.
vvars == <<viewer, launched, idx_tetra, idx, cursor, history, history_idx, draw_mode,
           lastOp, pushed, dropped>>

\* The mesh directory and what save() and the constructor keep of it.
directory == <<files, selection_file, log>>

\* The fields that only MeshCellsSelection has.
cellsOnly == <<selection, undo>>

\* The state of the registration application.
app == <<tab, register_button, source_selection, target_selection, markers, timer, warned>>

\* The other programs: the cell viewer's own fields and the registration application.
\* The helper objects of the package.
tools == <<extractor, probe, universe, legacy, folder>>

elsewhere == <<cellsOnly, app, tools>>

\* The state that the viewers' handlers never touch.
others == <<script, files, selection_file, log, elsewhere>>

vars == <<vvars, others>>

-----------------------------------------------------------------------------
(* numpy helpers *)

Range(s) == {s[k] : k \in 1..Len(s)}

NoDup(s) == \A i, j \in 1..Len(s) : i # j => s[i] # s[j]

IsSorted(s) == \A i, j \in 1..Len(s) : i < j => s[i] < s[j]

\* arange(n)
arange(n) == [k \in 1..n |-> k - 1]

RECURSIVE SortedSeq(_)
\* The elements of a finite set of integers in ascending order.
SortedSeq(S) ==
    IF S = {} THEN << >>
    ELSE LET m == CHOOSE x \in S : \A y \in S : x <= y
         IN  <<m>> \o SortedSeq(S \ {m})

\* setdiff1d(a, b): the sorted, unique values of a that are not in b
setdiff1d(a, b) == SortedSeq(Range(a) \ Range(b))

RECURSIVE FirstSeen(_)
\* a[sorted(unique(a, return_index=True)[1])]: every value once, at its first position
FirstSeen(a) ==
    IF a = << >> THEN << >>
    ELSE LET front == FirstSeen(SubSeq(a, 1, Len(a) - 1))
             x == a[Len(a)]
         IN  IF x \in Range(front) THEN front ELSE Append(front, x)

\* Whether a[s] (fancy indexing of an array of length n by the ids s) is defined;
\* numpy raises IndexError otherwise.  Ids are never negative here.
InRange(s, n) == \A k \in 1..Len(s) : s[k] >= 0 /\ s[k] < n

\* a[s]
Take(a, s) == [k \in 1..Len(s) |-> a[s[k] + 1]]

-----------------------------------------------------------------------------
(* SurfaceSelection (vedoTk/utils/mesh.py) and SurfaceMesh (vedoTk/mesh_selection.py) *)

closest_pointOffByOne(pts, v) == v + 1
\* pts.closest_point(v, return_point_id=True) on a line of points: the first id at
\* minimum distance.
closest_point(pts, v) ==
    LET d(k) == IF pts[k] >= v THEN pts[k] - v ELSE v - pts[k]
        k0 == CHOOSE k \in 1..Len(pts) :
                 /\ \A j \in 1..Len(pts) : d(k) <= d(j)
                 /\ \A j \in 1..(k - 1) : d(j) > d(k)
    IN  k0 - 1

\* __idx_tetra: for every surface vertex the id of the nearest volumetric vertex
BuildIdxTetra(vol, surf) == [i \in 1..Len(surf) |-> closest_point(vol, surf[i])]

\* The vertices of the tetrahedral meshes of the model, as positions on a line.
TetVertices == arange(NVol)

\* The surfaces the geometry filter may extract: NSurf of the volumetric vertices,
\* in the order of the volumetric mesh.
Surfaces == {s \in [1..NSurf -> 0..(NVol - 1)] : IsSorted(s)}

HasTetra(tet) == tet # << >>

\* SurfaceSelection.__init__, the selection part.  sel = << -1 >> stands for None.
NoneArray == << -1 >>
InitSelection(tet, sel) ==
    IF sel = NoneArray THEN << >>
    ELSE IF ~HasTetra(tet) THEN sel
    ELSE Take(tet, sel)

selected_idxNoMap(tet, s) == s
\* The selected_idx getter (defined only when SelectedDefined holds).
selected_idx(tet, s) == IF HasTetra(tet) THEN Take(tet, s) ELSE s

\* The getter raises IndexError when the tetra map is indexed out of its range.
SelectedDefined(tet, s) == HasTetra(tet) => InRange(s, Len(tet))

\* The selected_idx setter
set_selected_idx(a) == a

addNoUnique(s, ids) == s \o ids
addSorted(s, ids) == SortedSeq(Range(s \o ids))
add(s, ids) == FirstSeen(s \o ids)

removeNothing(s, ids) == s
\* SurfaceSelection.remove: idx[~in1d(idx, ids)]
remove(s, ids) == SelectSeq(s, LAMBDA x : x \notin Range(ids))

\* SurfaceMesh.remove: setdiff1d(idx, ids)
SM_remove(s, ids) == setdiff1d(s, ids)

clear == << >>

all == arange(NSurf)

invert(s) == setdiff1d(arange(NSurf), s)

\* update_selection indexes surface.vertices with the selection (and the cursor):
\* it raises IndexError when the selection holds an id that is no surface vertex.
UpdateSelectionOk(s) == InRange(s, NSurf)

-----------------------------------------------------------------------------
(* The viewers *)

\* Python's list indexing h[i]: a negative index counts from the end, and an index
\* outside -len(h) .. len(h) - 1 raises IndexError.
ListIndexOk(h, i) == -Len(h) <= i /\ i < Len(h)
ListAt(h, i) == IF i >= 0 THEN h[i + 1] ELSE h[Len(h) + i + 1]

UndoGuardOffByOne(i) == i >= 0
\* if self.__history_idx > 0
UndoGuard(i) == i > 0

RedoGuardOffByOne(h, i) == i < Len(h)

\* if self.__history_idx < len(self.__history) - 1
RedoGuard(h, i) == i < Len(h) - 1

PushHistoryNoTruncation(h, i, snap) == Append(h, snap)
PushHistoryShared(h, i, snap) ==
    Append([k \in 1..(IF i + 1 <= Len(h) THEN i + 1 ELSE Len(h)) |-> snap], snap)
\* history[:history_idx + 1] + [snapshot]
PushHistory(h, i, snap) ==
    Append(SubSeq(h, 1, IF i + 1 <= Len(h) THEN i + 1 ELSE Len(h)), snap)

\* What get_closest_points may return: ids of surface vertices, none twice.
Picks == {p \in UNION {[1..n -> 0..(NSurf - 1)] : n \in 0..NSurf} : NoDup(p)}

\* A pointer event: whether an actor is under the pointer, and the ids the pick resolves to.
Events == {[actor |-> FALSE, ids |-> << >>]} \cup {[actor |-> TRUE, ids |-> p] : p \in Picks}

\* The model stops growing the history at MaxHist entries: a handler that would
\* push n snapshots is taken only when they fit.
Room(n) == history_idx + 1 + n <= MaxHist

\* A handler, or the part of it, that leaves the history alone.
NoPush ==
    /\ UNCHANGED <<history, history_idx, pushed>>
    /\ dropped' = 0

\* self.__history = self.__history[:self.__history_idx + 1] + [self.__mesh.selected_idx]
\* self.__history_idx = len(self.__history) - 1
\* The getter raises when the selection is out of the tetra map's range: nothing is pushed.
Push(s) ==
    IF SelectedDefined(idx_tetra, s)
    THEN /\ Room(1)
         /\ history' = PushHistory(history, history_idx, selected_idx(idx_tetra, s))
         /\ history_idx' = Len(history') - 1
         /\ pushed' = PushHistory(pushed, history_idx, s)
         /\ dropped' = Len(history) + 1 - Len(history')
    ELSE NoPush

\* The state part of __update(history=h): update_selection raises before the push
\* when the selection holds an id that is no surface vertex, and nothing is pushed.
Update(h, s) ==
    IF h /\ UpdateSelectionOk(s)
    THEN Push(s)
    ELSE NoPush

\* No scripted scenario is running.
NoScript == [phase |-> "none"]

-----------------------------------------------------------------------------
(* File names and save() (vedoTk/apps/mesh_selection.py, same text in
   MeshPointsSelection.save and MeshCellsSelection.save).

   A file of the directory whose name starts with 'selection' is a record: sfx is
   the sequence of numeric suffixes ('selection_1_2' has sfx <<1, 2>>), ext is
   "npy" or "" (no extension).  Suffixes stay below 10, so a name is a string
   prefix of another exactly when its sfx is a prefix of the other's.  Files
   with other names (the mesh file) are never counted, read or written. *)

\* save() has not been called since the directory was last changed from outside.
NoSave == [overwrite |-> FALSE, target |-> [sfx |-> << >>, ext |-> "None"], name |-> [sfx |-> << >>, ext |-> "None"], nb_file |-> 0]

\* selection_file is None
NoName == [sfx |-> << >>, ext |-> "None"]

\* 'selection.npy'
SelectionNpy == [sfx |-> << >>, ext |-> "npy"]

\* filename.split('.')[0], joined with the directory: the name without its extension
Stem(name) == [sfx |-> name.sfx, ext |-> ""]

\* f'{file}.npy'
WithNpy(name) == [sfx |-> name.sfx, ext |-> "npy"]

\* f'{filename}_{nb_file}'
Indexed(filename, nb) == [sfx |-> Append(filename.sfx, nb), ext |-> ""]

\* f[:len(filename)] == filename
StartsWith(f, filename) ==
    /\ Len(filename.sfx) <= Len(f.sfx)
    /\ SubSeq(f.sfx, 1, Len(filename.sfx)) = filename.sfx

\* os.path.exists
Exists(fs, name) == name \in DOMAIN fs

\* The file the name is taken from: the argument, else the constructor's file, else 'selection.npy'
TargetName(arg, sf) ==
    IF arg = NoName /\ sf = NoName THEN SelectionNpy
    ELSE IF arg = NoName THEN sf
    ELSE arg

\* len([f for f in listdir(filedir) if f[:len(filename)] == filename])
NbFile(fs, filename) == Cardinality({f \in DOMAIN fs : StartsWith(f, filename)})

\* The "Indexing file" block: the path handed to numpy.save (without '.npy')
ChosenFile(fs, filename, overwrite) ==
    IF Exists(fs, filename) /\ ~overwrite
    THEN Indexed(filename, NbFile(fs, filename))
    ELSE filename

\* The "Indexing file" block: remove(file) when the path exists and overwrite is set
AfterRemove(fs, filename, overwrite) ==
    IF Exists(fs, filename) /\ overwrite
    THEN [f \in DOMAIN fs \ {filename} |-> fs[f]]
    ELSE fs

\* numpy.save(name, a): creates or replaces the file
WriteFile(fs, name, a) == [f \in DOMAIN fs \cup {name} |-> IF f = name THEN a ELSE fs[f]]

SavedArraySorted(tet, s) == SortedSeq(Range(selected_idx(tet, s)))
\* The array handed to numpy.save: self.__mesh.selected_idx
SavedArray(tet, s) == selected_idx(tet, s)

\* selected markers not handed to the registration viewer yet
NoMarkers == [source |-> << -1 >>, target |-> << -1 >>]

\* No registration was started: no vtk timer, no timer callback, no SOFA scene.
\* tid: the timer whose id is self.tid is alive; leaked: the live timers whose id
\* was overwritten; callbacks: the timer callbacks added to the plotter;
\* idx_step and rigid: those of self.sofa_scene.
NoTimer == [tid |-> FALSE, leaked |-> 0, callbacks |-> 0, idx_step |-> 0, rigid |-> TRUE]

\* MeshCellsSelection.__init__ without a selection file
InitCellsOnly ==
    /\ selection = {}
    /\ undo = {}

\* _QtApp.__init__: both viewers constructed, the Selection tab shown, no marker selected
InitApp ==
    /\ tab = 0
    /\ register_button = TRUE
    /\ source_selection = << >>
    /\ target_selection = << >>
    /\ markers = NoMarkers
    /\ timer = NoTimer
    /\ warned = FALSE

\* A viewer as its constructor leaves it (no selection file), over a surface mesh
\* or a tetrahedral mesh.
\* VisiblePoints.__init__.  A result is written as the number of the extract() call
\* whose worker computed it; 0 is the empty result of __init__.
InitExtractor ==
    extractor = [_visible_points |-> 0, _indices_visible_points |-> 0,
                 _camera_position |-> <<0, 0, 1>>,
                 call |-> 0, positions |-> "None", pc |-> "idle", worker |-> "none",
                 returned |-> << >>]

\* No mesh is handed to the proximity filter.
InitProbe == probe = [kind |-> "none"]

\* No engine is constructed.
InitUniverse == universe = [constructed |-> FALSE, op |-> "none"]

\* MeshSelection.__init__ of src/mesh_selection.py without a selection file
InitLegacy == legacy = [selected_cells |-> << >>, id_cursor |-> -1, drag_mode |-> FALSE]

\* No FolderInspection is constructed.
InitFolder == folder = [constructed |-> FALSE, op |-> "none"]

InitTools == InitExtractor /\ InitProbe /\ InitUniverse /\ InitLegacy /\ InitFolder

InitViewer ==
    /\ InitCellsOnly
    /\ InitApp
    /\ InitTools
    /\ viewer \in {"apps", "points"}
    /\ launched = FALSE
    /\ idx_tetra \in {<< >>} \cup {BuildIdxTetra(TetVertices, s) : s \in Surfaces}
    /\ idx = InitSelection(idx_tetra, NoneArray)
    /\ cursor = << >>
    /\ history = << >>
    /\ history_idx = 0
    /\ draw_mode = FALSE
    /\ lastOp = "init"
    /\ pushed = << >>
    /\ dropped = 0

\* The mesh directory holds no selection file, and none was given to the constructor.
InitDirectory ==
    /\ files = [f \in {} |-> << >>]
    /\ selection_file = NoName
    /\ log = NoSave

Init ==
    /\ InitViewer
    /\ script = NoScript
    /\ InitDirectory

\* launch(): __update() pushes the first snapshot, then show() starts the event loop.
Launch ==
    /\ ~launched
    /\ UpdateSelectionOk(idx)
    /\ Update(TRUE, idx)
    /\ launched' = TRUE
    /\ lastOp' = "launch"
    /\ UNCHANGED <<viewer, idx_tetra, idx, cursor, draw_mode>>

ClickHistoryAlways(v, dm) == TRUE
\* The history argument of __update() in the left click handler:
\* not self.__draw_mode in MeshSelection, the default True in MeshPointsSelection
ClickHistory(v, dm) == IF v = "apps" THEN ~dm ELSE TRUE

\* A click resolves to ids: it is on an actor and the proximity filter returns ids.
Resolved(ev) == ev.actor /\ Len(ev.ids) > 0

HoverAddsAlways(v, dm, n) == n > 0
\* A hover over an actor commits the n ids under the pointer: in draw mode, when there
\* are ids (MeshPointsSelection never does, the lines are commented out).
HoverAdds(v, dm, n) == v # "points" /\ dm /\ n > 0

\* __callback_mouse_move
MouseMove ==
    /\ launched
    /\ \E ev \in Events :
        /\ cursor' = IF ev.actor THEN ev.ids ELSE << >>
        /\ idx' = IF ev.actor /\ HoverAdds(viewer, draw_mode, Len(ev.ids))
                  THEN add(idx, ev.ids) ELSE idx
    /\ NoPush
    /\ lastOp' = "move"
    /\ UNCHANGED <<viewer, launched, idx_tetra, draw_mode>>

\* __callback_left_click
LeftClick ==
    /\ launched
    /\ \E ev \in Events :
        /\ lastOp' = IF Resolved(ev) THEN "left" ELSE "left miss"
        /\ IF ev.actor
           THEN /\ cursor' = ev.ids
                /\ IF Len(ev.ids) > 0
                   THEN /\ idx' = add(idx, ev.ids)
                        /\ Update(ClickHistory(viewer, draw_mode), idx')
                   ELSE UNCHANGED idx /\ NoPush
           ELSE UNCHANGED <<cursor, idx>> /\ NoPush
    /\ UNCHANGED <<viewer, launched, idx_tetra, draw_mode>>

\* __callback_right_click.  MeshPointsSelection pushes a second snapshot after
\* __update() has pushed one (and reaches that line only if __update() did not raise).
RightClick ==
    /\ launched
    /\ \E ev \in Events :
        /\ lastOp' = IF Resolved(ev) THEN "right" ELSE "right miss"
        /\ IF ev.actor
           THEN /\ cursor' = ev.ids
                /\ IF Len(ev.ids) > 0
                   THEN IF viewer = "apps"
                        THEN /\ idx' = remove(idx, ev.ids)
                             /\ Update(TRUE, idx')
                        ELSE /\ idx' = SM_remove(idx, ev.ids)
                             /\ IF UpdateSelectionOk(idx') /\ SelectedDefined(idx_tetra, idx')
                                THEN LET snap == selected_idx(idx_tetra, idx')
                                         h1 == PushHistory(history, history_idx, snap)
                                         p1 == PushHistory(pushed, history_idx, idx')
                                     IN  /\ Room(2)
                                         /\ history' = PushHistory(h1, Len(h1) - 1, snap)
                                         /\ history_idx' = Len(history') - 1
                                         /\ pushed' = PushHistory(p1, Len(p1) - 1, idx')
                                         /\ dropped' = Len(history) + 2 - Len(history')
                                ELSE NoPush
                   ELSE UNCHANGED idx /\ NoPush
           ELSE UNCHANGED <<cursor, idx>> /\ NoPush
    /\ UNCHANGED <<viewer, launched, idx_tetra, draw_mode>>

\* __callback_key_press, 'Ctrl+z'
KeyUndo ==
    /\ launched
    /\ IF UndoGuard(history_idx)
       THEN /\ history_idx' = history_idx - 1
            /\ idx' = IF ListIndexOk(history, history_idx')
                      THEN set_selected_idx(ListAt(history, history_idx'))
                      ELSE idx
       ELSE UNCHANGED <<history_idx, idx>>
    /\ dropped' = 0
    /\ lastOp' = "undo"
    /\ UNCHANGED <<viewer, launched, idx_tetra, cursor, history, draw_mode, pushed>>

\* __callback_key_press, 'Ctrl+y'
KeyRedo ==
    /\ launched
    /\ IF RedoGuard(history, history_idx)
       THEN /\ history_idx' = history_idx + 1
            /\ idx' = IF ListIndexOk(history, history_idx')
                      THEN set_selected_idx(ListAt(history, history_idx'))
                      ELSE idx
       ELSE UNCHANGED <<history_idx, idx>>
    /\ dropped' = 0
    /\ lastOp' = "redo"
    /\ UNCHANGED <<viewer, launched, idx_tetra, cursor, history, draw_mode, pushed>>

\* __callback_key_press, 'Ctrl+c'
KeyClear ==
    /\ launched
    /\ idx' = clear
    /\ Update(TRUE, idx')
    /\ lastOp' = "clear"
    /\ UNCHANGED <<viewer, launched, idx_tetra, cursor, draw_mode>>

\* __callback_key_press, 'Ctrl+d'.  vedoTk.apps.MeshSelection pushes the stroke on
\* leaving draw mode; MeshPointsSelection only flips the flag.
KeyDraw ==
    /\ launched
    /\ draw_mode' = ~draw_mode
    /\ IF viewer = "apps" /\ ~draw_mode'
       THEN Push(idx)
       ELSE NoPush
    /\ lastOp' = "draw"
    /\ UNCHANGED <<viewer, launched, idx_tetra, idx, cursor>>

\* __callback_key_press, 'Ctrl+a'
KeyAll ==
    /\ launched
    /\ idx' = all
    /\ Update(TRUE, idx')
    /\ lastOp' = "all"
    /\ UNCHANGED <<viewer, launched, idx_tetra, cursor, draw_mode>>

\* __callback_key_press, 'Ctrl+i'
KeyInvert ==
    /\ launched
    /\ idx' = invert(idx)
    /\ Update(TRUE, idx')
    /\ lastOp' = "invert"
    /\ UNCHANGED <<viewer, launched, idx_tetra, cursor, draw_mode>>

\* __callback_slider_area and __callback_slider_radius: the slider values only
\* change what is picked and drawn; __update(history=False) pushes nothing.
Slider ==
    /\ launched
    /\ NoPush
    /\ lastOp' = "slider"
    /\ UNCHANGED <<viewer, launched, idx_tetra, idx, cursor, draw_mode>>

Next ==
    \/ Launch /\ UNCHANGED others
    \/ MouseMove /\ UNCHANGED others
    \/ LeftClick /\ UNCHANGED others
    \/ RightClick /\ UNCHANGED others
    \/ KeyUndo /\ UNCHANGED others
    \/ KeyRedo /\ UNCHANGED others
    \/ KeyClear /\ UNCHANGED others
    \/ KeyDraw /\ UNCHANGED others
    \/ KeyAll /\ UNCHANGED others
    \/ KeyInvert /\ UNCHANGED others
    \/ Slider /\ UNCHANGED others

Spec == Init /\ [][Next]_vars

-----------------------------------------------------------------------------
(* The selection engine with save() and a new viewer constructed from a saved file.
   The engine is edited through add() and remove(), as the click handlers do. *)

viewerOnly == <<viewer, launched, cursor, history, history_idx, draw_mode, pushed, dropped, script,
                elsewhere>>

InitStore ==
    /\ InitViewer
    /\ viewer = "apps"
    /\ script = NoScript
    /\ InitDirectory

\* SurfaceSelection.add(idx=ids) with the ids of a pick
EngineAdd ==
    /\ \E ids \in Picks \ {<< >>} : idx' = add(idx, ids)
    /\ lastOp' = "add"
    /\ UNCHANGED <<viewerOnly, idx_tetra, files, selection_file, log>>

\* SurfaceSelection.remove(idx=ids) with the ids of a pick
EngineRemove ==
    /\ \E ids \in Picks \ {<< >>} : idx' = remove(idx, ids)
    /\ lastOp' = "remove"
    /\ UNCHANGED <<viewerOnly, idx_tetra, files, selection_file, log>>

\* save(selection_file=arg, overwrite=ow).  The getter is evaluated after the
\* "Indexing file" block: when it raises, nothing is written.
Save ==
    /\ \E arg \in {NoName, SelectionNpy}, ow \in BOOLEAN :
        LET filename == Stem(TargetName(arg, selection_file))
            file == ChosenFile(files, filename, ow)
            fs1 == AfterRemove(files, filename, ow)
            ok == SelectedDefined(idx_tetra, idx)
        IN  /\ Len(file.sfx) <= 1
            /\ \A k \in 1..Len(file.sfx) : file.sfx[k] <= MaxSuffix
            /\ files' = IF ok THEN WriteFile(fs1, WithNpy(file), SavedArray(idx_tetra, idx))
                        ELSE fs1
            /\ log' = [overwrite |-> ow, target |-> filename, name |-> WithNpy(file),
                       nb_file |-> NbFile(files, filename)]
            /\ lastOp' = IF ok THEN "save" ELSE "save raised"
    /\ UNCHANGED <<viewerOnly, idx_tetra, idx, selection_file>>

\* MeshSelection(mesh, selection_file=f) over the same mesh, for a file f of the
\* directory.  The constructor raises (and there is no new viewer) when the tetra
\* map is indexed out of its range.
Reopen ==
    /\ \E f \in {g \in DOMAIN files : g.ext = "npy"} :
        IF HasTetra(idx_tetra) => InRange(files[f], Len(idx_tetra))
        THEN /\ idx' = InitSelection(idx_tetra, files[f])
             /\ selection_file' = f
             /\ lastOp' = "reopen"
        ELSE /\ UNCHANGED <<idx, selection_file>>
             /\ lastOp' = "reopen raised"
    /\ UNCHANGED <<viewerOnly, idx_tetra, files, log>>

NextStore == EngineAdd \/ EngineRemove \/ Save \/ Reopen

SpecStore == InitStore /\ [][NextStore]_vars

\* The user creates a file named 'selection' (no extension) in the directory.
EnvCreate ==
    /\ ~Exists(files, Stem(SelectionNpy))
    /\ files' = WriteFile(files, Stem(SelectionNpy), << >>)
    /\ log' = NoSave
    /\ lastOp' = "env"
    /\ UNCHANGED <<viewerOnly, idx_tetra, idx, selection_file>>

\* The user deletes a file of the directory.
EnvDelete ==
    /\ \E f \in DOMAIN files : files' = [g \in DOMAIN files \ {f} |-> files[g]]
    /\ log' = NoSave
    /\ lastOp' = "env"
    /\ UNCHANGED <<viewerOnly, idx_tetra, idx, selection_file>>

NextNaming == EngineAdd \/ EngineRemove \/ Save \/ Reopen \/ EnvCreate \/ EnvDelete

SpecNaming == InitStore /\ [][NextNaming]_vars

\* A step that is a call of save() on 'selection.npy' with the given overwrite flag,
\* whose getter did not raise.
SaveStep(ow) ==
    /\ lastOp' = "save"
    /\ log'.overwrite = ow
    /\ log'.target = Stem(SelectionNpy)

\* C3 (as claimed): a viewer constructed from the file that save() has just
\* written holds the selection that was saved.
C3_TetraRoundTrip ==
    [][(lastOp = "save" /\ lastOp' \in {"reopen", "reopen raised"} /\ selection_file' = log.name)
           => (lastOp' = "reopen" /\ idx' = idx)]_vars

\* The round trip does hold on a surface mesh.
C3_RoundTripOnSurfaceMesh ==
    [][(~HasTetra(idx_tetra) /\ lastOp = "save" /\ lastOp' = "reopen" /\ selection_file' = log.name)
           => idx' = idx]_vars

\* 'selection_1.npy'
Selection1Npy == [sfx |-> <<1>>, ext |-> "npy"]

\* C5 (as claimed): two calls of save() on selection.npy with overwrite=False, in a
\* directory that held no selection file: the first writes selection.npy, the
\* second leaves it as the first wrote it and writes selection_1.npy.
C5_AutoNaming ==
    [][(/\ lastOp = "save"
        /\ ~log.overwrite
        /\ log.target = Stem(SelectionNpy)
        /\ log.nb_file = 0
        /\ SaveStep(FALSE))
           => /\ log.name = SelectionNpy
              /\ Exists(files, SelectionNpy)
              /\ files' = WriteFile(files, Selection1Npy, selected_idx(idx_tetra, idx))]_vars

\* C6 (as claimed): save() with overwrite=True on an existing selection.npy leaves
\* the directory as it was, except that selection.npy holds the current selection.
C6_OverwriteInPlace ==
    [][(SaveStep(TRUE) /\ Exists(files, SelectionNpy))
           => files' = WriteFile(files, SelectionNpy, selected_idx(idx_tetra, idx))]_vars

\* It does when the directory holds no file named 'selection'.
C6_InPlaceWithoutStemFile ==
    [][(SaveStep(TRUE) /\ Exists(files, SelectionNpy) /\ ~Exists(files, Stem(SelectionNpy)))
           => files' = WriteFile(files, SelectionNpy, selected_idx(idx_tetra, idx))]_vars

C19_ExportIsMappedSelection ==
    LET ElementWise(e) ==
            /\ Len(e) = Len(idx)
            /\ \A k \in 1..Len(idx) :
                   e[k] = IF HasTetra(idx_tetra) THEN idx_tetra[idx[k] + 1] ELSE idx[k]
    IN  /\ SelectedDefined(idx_tetra, idx) => ElementWise(selected_idx(idx_tetra, idx))
        /\ lastOp = "save" => ElementWise(files[log.name])

\* C19 witness: save() has written the selection of a tetrahedral mesh, and the
\* volumetric ids written differ from the surface ids held.
C19_Witness ==
    /\ lastOp = "save"
    /\ HasTetra(idx_tetra)
    /\ Len(idx) > 0
    /\ files[log.name] # idx

-----------------------------------------------------------------------------
(* Construction of a viewer from a selection file that may be missing or may not
   hold an array: MeshSelection.__init__ (load(selection_file), then
   SurfaceSelection.__init__), same calls in SurfaceMesh.__init__.  script keeps
   the file name handed to the last constructor call and the exception it raised. *)

constructFrame == <<viewer, launched, cursor, history, history_idx, draw_mode, pushed, dropped,
                    elsewhere>>

\* The content of a file that numpy.load cannot read as an array.
Corrupt == << -2 >>

\* 'selection_1.npy'
Selection1 == WithNpy(Indexed(Stem(SelectionNpy), 1))

loadOrEmpty(fs, name) ==
    IF Exists(fs, name) /\ fs[name] # Corrupt
    THEN [error |-> "none", array |-> fs[name]]
    ELSE [error |-> "none", array |-> << >>]
\* numpy.load(name): FileNotFoundError for a missing file, ValueError for a file that
\* holds no array
load(fs, name) ==
    IF ~Exists(fs, name) THEN [error |-> "FileNotFoundError", array |-> << >>]
    ELSE IF fs[name] = Corrupt THEN [error |-> "ValueError", array |-> << >>]
    ELSE [error |-> "none", array |-> fs[name]]

InitConstruct ==
    /\ InitViewer
    /\ viewer = "apps"
    /\ InitDirectory
    /\ script = [phase |-> "construct", file |-> NoName, error |-> "none"]

\* add(idx=ids) on the viewer's engine
Con_Add ==
    /\ \E ids \in Picks \ {<< >>} : idx' = add(idx, ids)
    /\ lastOp' = "add"
    /\ UNCHANGED <<constructFrame, script, idx_tetra, files, selection_file, log>>

\* save(overwrite=True) with no file name
Con_Save ==
    /\ SelectedDefined(idx_tetra, idx)
    /\ LET filename == Stem(TargetName(NoName, selection_file))
       IN  files' = WriteFile(AfterRemove(files, filename, TRUE),
                              WithNpy(ChosenFile(files, filename, TRUE)), SavedArray(idx_tetra, idx))
    /\ lastOp' = "save"
    /\ UNCHANGED <<constructFrame, script, idx_tetra, idx, selection_file, log>>

\* Another program writes something that is no array into a selection file.
Con_EnvCorrupt ==
    /\ \E f \in {SelectionNpy, Selection1} : files' = WriteFile(files, f, Corrupt)
    /\ lastOp' = "env"
    /\ UNCHANGED <<constructFrame, script, idx_tetra, idx, selection_file, log>>

\* The user deletes a file of the directory.
Con_EnvDelete ==
    /\ \E f \in DOMAIN files : files' = [g \in DOMAIN files \ {f} |-> files[g]]
    /\ lastOp' = "env"
    /\ UNCHANGED <<constructFrame, script, idx_tetra, idx, selection_file, log>>

\* MeshSelection(mesh, selection_file=f) over the same mesh.  When the constructor
\* raises there is no new viewer: the program is left with the one it had.
Construct ==
    /\ \E f \in {SelectionNpy, Selection1} :
        LET r == load(files, f)
            error == IF r.error # "none" THEN r.error
                     ELSE IF HasTetra(idx_tetra) /\ ~InRange(r.array, Len(idx_tetra))
                          THEN "IndexError"
                          ELSE "none"
        IN  /\ script' = [script EXCEPT !.file = f, !.error = error]
            /\ IF error = "none"
               THEN /\ idx' = InitSelection(idx_tetra, r.array)
                    /\ selection_file' = f
                    /\ lastOp' = "construct"
               ELSE /\ UNCHANGED <<idx, selection_file>>
                    /\ lastOp' = "construct raised"
    /\ UNCHANGED <<constructFrame, idx_tetra, files, log>>

NextConstruct == Con_Add \/ Con_Save \/ Con_EnvCorrupt \/ Con_EnvDelete \/ Construct

SpecConstruct == InitConstruct /\ [][NextConstruct]_vars

\* C24: a constructor call with a selection_file that is missing or holds no array
\* raises the error of the load to its caller, and makes no viewer (so none with an
\* empty selection).
C24_LoadFailurePropagates ==
    [][(/\ lastOp' \in {"construct", "construct raised"}
        /\ (~Exists(files, script'.file) \/ files[script'.file] = Corrupt))
          => /\ lastOp' = "construct raised"
             /\ script'.error = IF Exists(files, script'.file) THEN "ValueError"
                                 ELSE "FileNotFoundError"
             /\ UNCHANGED <<idx, selection_file>>]_vars

\* C24 witness: a viewer with a non-empty selection has saved it, the file was then
\* overwritten with something that is no array, and a constructor call on it has raised.
C24_Witness ==
    /\ lastOp = "construct raised"
    /\ script.error = "ValueError"
    /\ script.file = SelectionNpy
    /\ Len(idx) > 0

-----------------------------------------------------------------------------
(* The cell viewer, vedoTk.MeshCellsSelection (vedoTk/mesh_selection.py): the
   selection, the cursor and the last-added delta are Python sets of cell ids;
   there is no history.  script keeps the cells the last pick resolved to and the
   selection before the last handler. *)

cellsFrame == <<idx_tetra, idx, history, history_idx, pushed, dropped, directory, app, tools>>

\* What __get_closest_cells can return, as a set.
CellPicks == SUBSET (0..(NCells - 1))

CellEvents == {[actor |-> FALSE, ids |-> {}]} \cup {[actor |-> TRUE, ids |-> c] : c \in CellPicks}

InitCells ==
    /\ viewer = "cells"
    /\ launched = FALSE
    /\ idx_tetra = << >>
    /\ idx = << >>
    /\ cursor = {}
    /\ history = << >>
    /\ history_idx = 0
    /\ draw_mode = FALSE
    /\ lastOp = "init"
    /\ pushed = << >>
    /\ dropped = 0
    /\ InitCellsOnly
    /\ InitApp
    /\ InitTools
    /\ InitDirectory
    /\ script = [phase |-> "cells", pick |-> {}, before |-> {}]

\* launch(): __update() colours the selection, then show() starts the event loop
Cells_Launch ==
    /\ ~launched
    /\ launched' = TRUE
    /\ lastOp' = "launch"
    /\ script' = [script EXCEPT !.pick = {}, !.before = selection]
    /\ UNCHANGED <<viewer, cursor, draw_mode, selection, undo, cellsFrame>>

\* __callback_mouse_move
Cells_MouseMove ==
    /\ launched
    /\ \E ev \in CellEvents :
        /\ cursor' = IF ev.actor THEN ev.ids ELSE {}
        /\ selection' = IF ev.actor /\ HoverAdds(viewer, draw_mode, Cardinality(ev.ids))
                        THEN selection \cup ev.ids ELSE selection
        /\ script' = [script EXCEPT !.pick = ev.ids, !.before = selection]
    /\ lastOp' = "move"
    /\ UNCHANGED <<viewer, launched, draw_mode, undo, cellsFrame>>

UndoDeltaWholePick(c, s) == c
\* The last-added delta a left click records: self.__cursor.difference(self.__selection)
UndoDelta(c, s) == c \ s

\* __callback_left_click
Cells_LeftClick ==
    /\ launched
    /\ \E ev \in CellEvents :
        /\ lastOp' = IF ev.actor /\ Cardinality(ev.ids) > 0 THEN "left" ELSE "left miss"
        /\ script' = [script EXCEPT !.pick = ev.ids, !.before = selection]
        /\ IF ev.actor
           THEN /\ cursor' = ev.ids
                /\ IF Cardinality(ev.ids) > 0
                   THEN /\ undo' = UndoDelta(ev.ids, selection)
                        /\ selection' = selection \cup ev.ids
                   ELSE UNCHANGED <<undo, selection>>
           ELSE UNCHANGED <<cursor, undo, selection>>
    /\ UNCHANGED <<viewer, launched, draw_mode, cellsFrame>>

\* __callback_right_click: the cells that __get_closest_cells returns are not kept,
\* the handler takes self.__cursor out of the selection
Cells_RightClick ==
    /\ launched
    /\ \E ev \in CellEvents :
        /\ lastOp' = IF ev.actor THEN "right" ELSE "right miss"
        /\ script' = [script EXCEPT !.pick = ev.ids, !.before = selection]
        /\ selection' = IF ev.actor THEN selection \ cursor ELSE selection
    /\ UNCHANGED <<viewer, launched, cursor, draw_mode, undo, cellsFrame>>

\* __callback_key_press, 'z'
Cells_KeyZ ==
    /\ launched
    /\ selection' = IF Cardinality(selection) > 0 THEN selection \ undo ELSE selection
    /\ lastOp' = "z"
    /\ script' = [script EXCEPT !.pick = {}, !.before = selection]
    /\ UNCHANGED <<viewer, launched, cursor, draw_mode, undo, cellsFrame>>

\* __callback_key_press, 'c'
Cells_KeyC ==
    /\ launched
    /\ selection' = {}
    /\ lastOp' = "clear"
    /\ script' = [script EXCEPT !.pick = {}, !.before = selection]
    /\ UNCHANGED <<viewer, launched, cursor, draw_mode, undo, cellsFrame>>

\* __callback_key_press, 'd'
Cells_KeyD ==
    /\ launched
    /\ draw_mode' = ~draw_mode
    /\ lastOp' = "draw"
    /\ script' = [script EXCEPT !.pick = {}, !.before = selection]
    /\ UNCHANGED <<viewer, launched, cursor, selection, undo, cellsFrame>>

\* __callback_slider: the radius only changes what the next picks resolve to
Cells_Slider ==
    /\ launched
    /\ lastOp' = "slider"
    /\ script' = [script EXCEPT !.pick = {}, !.before = selection]
    /\ UNCHANGED <<viewer, launched, cursor, draw_mode, selection, undo, cellsFrame>>

NextCells ==
    \/ Cells_Launch
    \/ Cells_MouseMove
    \/ Cells_LeftClick
    \/ Cells_RightClick
    \/ Cells_KeyZ
    \/ Cells_KeyC
    \/ Cells_KeyD
    \/ Cells_Slider

SpecCells == InitCells /\ [][NextCells]_vars

(* The three viewers side by side: the point viewers of Spec and the cell viewer. *)

InitViewers == Init \/ InitCells

NextViewers ==
    \/ viewer # "cells" /\ Next
    \/ viewer = "cells" /\ NextCells

SpecViewers == InitViewers /\ [][NextViewers]_vars

\* C15 (as claimed): a right click whose pick resolves to the cells R takes exactly
\* R out of the selection, whatever the previous hover or click resolved to.
C15_RightClickRemovesPick ==
    [][lastOp' = "right" => selection' = selection \ script'.pick]_vars

\* It does when the previous event resolved to the same cells.
C15_RemovesPickWhenCursorIsPick ==
    [][(lastOp' = "right" /\ cursor = script'.pick) => selection' = selection \ script'.pick]_vars

\* In MeshSelection and MeshPointsSelection the handler first stores the pick as the
\* cursor and then removes the cursor.
C15_RemovesPickInPointViewers ==
    [][(lastOp' = "right" /\ viewer # "cells") => Range(idx') = Range(idx) \ Range(cursor')]_vars

\* C16: a left click that resolves to cells C records C minus the selection held
\* before the click as the last-added delta, and 'z' pressed directly afterwards
\* takes that delta out again, which gives back the selection of before the click.
C16_RemoveLast ==
    [][/\ lastOp' = "left" => /\ undo' = script'.pick \ selection
                              /\ selection' = selection \cup script'.pick
       /\ (lastOp = "left" /\ lastOp' = "z") => /\ selection' = selection \ undo
                                                /\ selection' = script.before]_vars

\* C16 witness: 'z' pressed right after a click on cells of which some, not all,
\* were selected before.
C16_Witness ==
    /\ lastOp = "z"
    /\ script.before = 0..(NCells - 1)
    /\ undo # {}
    /\ selection # {}

-----------------------------------------------------------------------------
(* VisiblePoints (vedoTk/visible_points.py, same text in src/visible_points.py):
   one thread calls set_camera() and extract(); extract() starts a worker thread,
   joins it and returns the two result fields. *)

toolsFrame == <<vvars, script, directory, cellsOnly, app, probe, universe, legacy, folder>>

\* The camera positions handed to set_camera(): lists of three floats, and a list
\* that is too short.
CameraPositions == {<<0, 0, 1>>, <<1, 0, 0>>, <<0, 0>>}

\* norm(point - self._camera_position) in the worker: numpy raises ValueError when the
\* list does not broadcast against a point of three coordinates.
CameraOk(c) == Len(c) = 3

InitVisible ==
    /\ InitViewer
    /\ viewer = "apps"
    /\ idx_tetra = << >>
    /\ script = NoScript
    /\ InitDirectory

\* set_camera(camera_position=c)
VP_SetCamera ==
    /\ extractor.pc = "idle"
    /\ \E c \in CameraPositions : extractor' = [extractor EXCEPT !._camera_position = c]
    /\ UNCHANGED toolsFrame

\* extract(positions): t = Thread(target=self._extract, args=(positions,)); t.start();
\* the caller goes on to t.join().  positions is None or the current positions of the mesh.
VP_Extract ==
    /\ extractor.pc = "idle"
    /\ extractor.call < MaxCalls
    /\ \E positions \in {"None", "array"} :
        extractor' = [extractor EXCEPT !.call = @ + 1, !.positions = positions, !.pc = "join",
                                       !.worker = "started", !.returned = << >>]
    /\ UNCHANGED toolsFrame

\* _extract() in the worker thread, up to its first assignment to a field of the
\* object.  An exception ends the thread (threading prints it) and reaches no caller.
VP_WorkerCompute ==
    /\ extractor.worker = "started"
    /\ extractor' = IF CameraOk(extractor._camera_position)
                    THEN [extractor EXCEPT !._visible_points = extractor.call,
                                           !.worker = "stored points"]
                    ELSE [extractor EXCEPT !.worker = "raised"]
    /\ UNCHANGED toolsFrame

\* self._indices_visible_points = indices, the last statement of the worker
VP_WorkerStore ==
    /\ extractor.worker = "stored points"
    /\ extractor' = [extractor EXCEPT !._indices_visible_points = extractor.call,
                                      !.worker = "finished"]
    /\ UNCHANGED toolsFrame

\* t.join() returns when the worker thread has ended, normally or by an exception.
Join(w) == w \in {"finished", "raised"}

\* t.join() returns; return self._visible_points, self._indices_visible_points
VP_Return ==
    /\ extractor.pc = "join"
    /\ Join(extractor.worker)
    /\ extractor' = [extractor EXCEPT
                        !.returned = <<extractor._visible_points, extractor._indices_visible_points>>,
                        !.pc = "idle"]
    /\ UNCHANGED toolsFrame

NextVisible == VP_SetCamera \/ VP_Extract \/ VP_WorkerCompute \/ VP_WorkerStore \/ VP_Return

SpecVisible == InitVisible /\ [][NextVisible]_vars

\* extract() has just returned.
VP_Returned == extractor.pc = "join" /\ extractor'.pc = "idle"

\* C26 (as claimed): extract() returns only after its worker thread has ended, and the
\* pair it returns is the one that this call's worker computed.
C26_ReturnsThisCallsResult ==
    [][VP_Returned => /\ extractor.worker \in {"finished", "raised"}
                      /\ extractor'.returned = <<extractor.call, extractor.call>>]_vars

\* It returns after the worker has ended, and the worker's pair if the worker did not raise.
C26_ReturnsAfterJoin ==
    [][VP_Returned => /\ extractor.worker \in {"finished", "raised"}
                      /\ extractor.worker = "finished"
                            => extractor'.returned = <<extractor.call, extractor.call>>]_vars

-----------------------------------------------------------------------------
(* The proximity filter: SurfaceSelection.get_closest_points (vedoTk/utils/mesh.py,
   same text in SurfaceMesh.get_closest_points) and
   MeshCellsSelection.__get_closest_cells (vedoTk/mesh_selection.py).

   A mesh is the sequence of the normals of its elements (vertices, or cells), as
   integer vectors of the plane.  A pick position is given by its distance to every
   candidate point (the vertices, or the centroids of the cells) and, for cells, by
   its distance to every cell (never more than the distance to the centroid). *)

probeFrame == <<vvars, script, directory, cellsOnly, app, extractor, universe, legacy, folder>>

\* Normals: three directions, and the null normal of a vertex that no cell uses
\* (of a degenerate cell).
Normals == {<<1, 0>>, <<0, 1>>, <<-1, 0>>, <<0, 0>>}

\* numpy.dot
dot(a, b) == a[1] * b[1] + a[2] * b[2]

\* closest_point(pos, return_point_id=True) and closest_point(pos, return_cell_id=True):
\* the id of the element at the least distance (the first of them).
closest_id(d) ==
    (CHOOSE k \in 1..Len(d) : /\ \A j \in 1..Len(d) : d[k] <= d[j]
                              /\ \A j \in 1..(k - 1) : d[j] > d[k]) - 1

\* closest_point(pos, radius=r, return_point_id=True) followed by
\* array([ids]) if isinstance(ids, int) else array(ids): vedo tests 'if radius', so a
\* radius of 0 gives the single closest id, and a positive radius the ids within it.
closest_point_radius(d, r) ==
    IF r = 0 THEN << closest_id(d) >>
    ELSE SortedSeq({k - 1 : k \in {j \in 1..Len(d) : d[j] <= r}})

get_closest_pointsNoFilter(normals, d, r) == closest_point_radius(d, r)
\* SurfaceSelection.get_closest_points(pos, radius)
get_closest_points(normals, d, r) ==
    LET ids == closest_point_radius(d, r)
    IN  IF Len(ids) = 0 THEN << >>
        ELSE LET pos_normal == normals[closest_id(d) + 1]
             IN  SelectSeq(ids, LAMBDA i : dot(pos_normal, normals[i + 1]) > 0)

\* MeshCellsSelection.__get_closest_cells(picked): the candidates are the centroids
\* (distances d), the reference normal is that of the closest cell (distances sd).
get_closest_cells(normals, d, sd, r) ==
    LET ids == closest_point_radius(d, r)
    IN  IF Len(ids) = 0 THEN << >>
        ELSE LET picked_normal == normals[closest_id(sd) + 1]
             IN  SelectSeq(ids, LAMBDA i : dot(picked_normal, normals[i + 1]) > 0)

InitFilter ==
    /\ InitViewer
    /\ viewer = "apps"
    /\ idx_tetra = << >>
    /\ script = NoScript
    /\ InitDirectory

\* A viewer is constructed over a mesh: "points" for MeshSelection and
\* MeshPointsSelection, "cells" for MeshCellsSelection.  The radius starts at 0.
Filter_Mesh ==
    /\ probe.kind = "none"
    /\ \E kind \in {"points", "cells"}, n \in 1..NElem :
        \E normals \in [1..n -> Normals] :
            probe' = [kind |-> kind, normals |-> normals, radius |-> 0, op |-> "mesh",
                      d |-> << >>, sd |-> << >>, result |-> << >>]
    /\ UNCHANGED probeFrame

\* The slider callbacks: self.__radius = widget.value (self.__slider_area in MeshSelection)
Filter_Slider ==
    /\ probe.kind # "none"
    /\ \E r \in 0..MaxRadius : probe' = [probe EXCEPT !.radius = r, !.op = "slider"]
    /\ UNCHANGED probeFrame

\* A pointer event on the actor: the filter is called with event.picked3d
Filter_Pick ==
    /\ probe.kind # "none"
    /\ \E d \in [1..Len(probe.normals) -> 0..MaxDist] :
        \E sd \in {s \in [1..Len(probe.normals) -> 0..MaxDist] :
                       /\ \A k \in 1..Len(d) : s[k] <= d[k]
                       /\ probe.kind = "points" => s = d} :
            probe' = [probe EXCEPT
                        !.op = "pick", !.d = d, !.sd = sd,
                        !.result = IF probe.kind = "points"
                                   THEN get_closest_points(probe.normals, d, probe.radius)
                                   ELSE get_closest_cells(probe.normals, d, sd, probe.radius)]
    /\ UNCHANGED probeFrame

NextFilter == Filter_Mesh \/ Filter_Slider \/ Filter_Pick

SpecFilter == InitFilter /\ [][NextFilter]_vars

\* C22 (as claimed): with radius 0 the filter returns exactly one id, that of the
\* nearest element, for the point filter and for the cell filter.
C22_RadiusZeroReturnsNearest ==
    (probe.kind # "none" /\ probe.op = "pick" /\ probe.radius = 0)
        => probe.result = << closest_id(probe.d) >>

\* It does when the normal of the nearest candidate has a positive dot product with
\* the reference normal.
C22_NearestWhenNormalsAgree ==
    (/\ probe.kind # "none" /\ probe.op = "pick" /\ probe.radius = 0
     /\ dot(probe.normals[closest_id(probe.sd) + 1], probe.normals[closest_id(probe.d) + 1]) > 0)
        => probe.result = << closest_id(probe.d) >>

\* C23: with a positive radius the point filter returns exactly the ids within the
\* radius whose normal has a positive dot product with the normal of the vertex
\* closest to the pick position, and nothing (the call returns) when no vertex is
\* within the radius.
C23_WithinRadiusFacingPick ==
    (probe.kind = "points" /\ probe.op = "pick" /\ probe.radius > 0)
        => /\ NoDup(probe.result)
           /\ Range(probe.result) =
                 {i \in 0..(Len(probe.d) - 1) :
                     /\ probe.d[i + 1] <= probe.radius
                     /\ dot(probe.normals[closest_id(probe.d) + 1], probe.normals[i + 1]) > 0}
           /\ (\A j \in 1..Len(probe.d) : probe.d[j] > probe.radius) => probe.result = << >>

\* C23 witness: two vertices are within the radius, and the filter has returned the
\* one whose normal faces the pick and dropped the other.
C23_Witness ==
    /\ probe.kind = "points"
    /\ probe.op = "pick"
    /\ probe.radius > 0
    /\ Cardinality({j \in 1..Len(probe.d) : probe.d[j] <= probe.radius}) = 2
    /\ Len(probe.result) = 1

-----------------------------------------------------------------------------
(* Construction of a selection engine over a mesh of any size:
   SurfaceSelection.__init__ (vedoTk/utils/mesh.py), SurfaceMesh.__init__ and
   MeshCellsSelection.__init__ (vedoTk/mesh_selection.py).  The universe is the
   number of vertices of the surface (of cells, for MeshCellsSelection). *)

universeFrame == <<vvars, script, directory, cellsOnly, app, extractor, probe, legacy, folder>>

\* The sizes of the meshes handed to the constructors: an empty mesh (a file with no
\* vertex, a point cloud with no cell) and meshes with elements.
Sizes == 0..NVol

InitAnyMesh ==
    /\ InitViewer
    /\ viewer = "apps"
    /\ idx_tetra = << >>
    /\ script = NoScript
    /\ InitDirectory

\* SurfaceSelection(mesh), SurfaceMesh(mesh_file, None), MeshCellsSelection(mesh_file):
\* __init__ tests neither nvertices nor ncells and returns an engine for every mesh.
Uni_Construct ==
    /\ ~universe.constructed
    /\ \E kind \in {"SurfaceSelection", "SurfaceMesh", "MeshCellsSelection"}, n \in Sizes :
        universe' = [constructed |-> TRUE, op |-> "construct", kind |-> kind,
                     nvertices |-> n, idx |-> << >>]
    /\ UNCHANGED universeFrame

\* add(idx=ids) with ids of the mesh (a left click); a mesh without elements has none
Uni_Add ==
    /\ universe.constructed
    /\ \E i \in 0..(universe.nvertices - 1) :
        universe' = [universe EXCEPT !.idx = add(@, << i >>), !.op = "add"]
    /\ UNCHANGED universeFrame

\* all() (Ctrl+a): arange(nvertices).  MeshCellsSelection has no such key.
Uni_All ==
    /\ universe.constructed
    /\ universe.kind # "MeshCellsSelection"
    /\ universe' = [universe EXCEPT !.idx = arange(universe.nvertices), !.op = "all"]
    /\ UNCHANGED universeFrame

\* remove(idx=ids) with an id of the mesh (a right click)
Uni_Remove ==
    /\ universe.constructed
    /\ \E i \in 0..(universe.nvertices - 1) :
        universe' = [universe EXCEPT
                        !.idx = IF universe.kind = "SurfaceMesh" THEN SM_remove(@, << i >>)
                                ELSE remove(@, << i >>),
                        !.op = "remove"]
    /\ UNCHANGED universeFrame

\* invert() (Ctrl+i): setdiff1d(arange(nvertices), idx).  MeshCellsSelection has no such key.
Uni_Invert ==
    /\ universe.constructed
    /\ universe.kind # "MeshCellsSelection"
    /\ universe' = [universe EXCEPT !.idx = setdiff1d(arange(universe.nvertices), @),
                                    !.op = "invert"]
    /\ UNCHANGED universeFrame

\* clear()
Uni_Clear ==
    /\ universe.constructed
    /\ universe' = [universe EXCEPT !.idx = << >>, !.op = "clear"]
    /\ UNCHANGED universeFrame

\* The viewer is closed and its engine dropped.
Uni_Close ==
    /\ universe.constructed
    /\ universe' = [constructed |-> FALSE, op |-> "close"]
    /\ UNCHANGED universeFrame

NextUniverse ==
    \/ Uni_Construct
    \/ Uni_Add
    \/ Uni_Remove
    \/ Uni_All
    \/ Uni_Invert
    \/ Uni_Clear
    \/ Uni_Close

SpecUniverse == InitAnyMesh /\ [][NextUniverse]_vars

\* C29 (as claimed): no engine exists over a mesh without elements: a constructor
\* call on such a mesh raises.
C29_NoEmptyUniverse == universe.constructed => universe.nvertices > 0

\* Over a mesh with elements the constructor returns an engine, whose select-all
\* holds every element.
C29_EngineOverNonEmptyMesh ==
    (universe.constructed /\ universe.op = "all")
        => Len(universe.idx) = universe.nvertices

-----------------------------------------------------------------------------
(* The selection engine alone: SurfaceSelection (viewer = "apps") and SurfaceMesh
   (viewer = "points") driven through their methods, from an empty selection.
   script keeps the set that union and difference give for the same calls, and
   the selection before the last call. *)

engineFrame == <<viewer, launched, idx_tetra, cursor, history, history_idx, draw_mode, pushed,
                 dropped, directory, elsewhere>>

\* The arrays handed to add() and remove(): ids of the surface, possibly repeated.
IdArrays == UNION {[1..n -> 0..(NSurf - 1)] : n \in 0..NSurf}

InitEngine ==
    /\ InitViewer
    /\ InitDirectory
    /\ script = [phase |-> "engine", set |-> {}, prev |-> << >>, arg |-> << >>]

\* add(idx=ids)
Eng_Add ==
    /\ \E ids \in IdArrays :
        /\ idx' = add(idx, ids)
        /\ script' = [script EXCEPT !.set = @ \cup Range(ids), !.prev = idx, !.arg = ids]
    /\ lastOp' = "add"
    /\ UNCHANGED engineFrame

\* remove(idx=ids)
Eng_Remove ==
    /\ \E ids \in IdArrays :
        /\ idx' = IF viewer = "apps" THEN remove(idx, ids) ELSE SM_remove(idx, ids)
        /\ script' = [script EXCEPT !.set = @ \ Range(ids), !.prev = idx, !.arg = ids]
    /\ lastOp' = "remove"
    /\ UNCHANGED engineFrame

\* clear()
Eng_Clear ==
    /\ idx' = clear
    /\ script' = [script EXCEPT !.set = {}, !.prev = idx, !.arg = << >>]
    /\ lastOp' = "clear"
    /\ UNCHANGED engineFrame

\* all()
Eng_All ==
    /\ idx' = all
    /\ script' = [script EXCEPT !.set = Range(all), !.prev = idx, !.arg = << >>]
    /\ lastOp' = "all"
    /\ UNCHANGED engineFrame

\* invert()
Eng_Invert ==
    /\ idx' = invert(idx)
    /\ script' = [script EXCEPT !.set = Range(idx'), !.prev = idx, !.arg = << >>]
    /\ lastOp' = "invert"
    /\ UNCHANGED engineFrame

\* selected_idx = <the value the getter returned>, as undo and redo do with a
\* snapshot; nothing is set when the getter raises
Eng_Set ==
    /\ SelectedDefined(idx_tetra, idx)
    /\ idx' = set_selected_idx(selected_idx(idx_tetra, idx))
    /\ script' = [script EXCEPT !.set = Range(idx'), !.prev = idx, !.arg = << >>]
    /\ lastOp' = "set"
    /\ UNCHANGED engineFrame

NextEngine == Eng_Add \/ Eng_Remove \/ Eng_Clear \/ Eng_All \/ Eng_Invert \/ Eng_Set

SpecEngine == InitEngine /\ [][NextEngine]_vars

\* C12: after any sequence of add() and remove() (and the other methods) the
\* selection is, as a set, what union and difference give for the same sequence,
\* and it holds no id twice.
C12_SetSemantics == Range(idx) = script.set /\ NoDup(idx)

\* C12 witness: add() calls have selected every id, and a remove() has then taken
\* some of them, not all, out again.
C12_Witness ==
    /\ lastOp = "remove"
    /\ Len(script.prev) = NSurf
    /\ Len(idx) = NSurf - 1
    /\ Len(idx) > 0

\* C21: all() followed by remove() of an array that holds every id of
\* [0, number of surface vertices) leaves the selection empty.
C21_AllThenRemoveAll ==
    [][(lastOp = "all" /\ lastOp' = "remove" /\ Range(script'.arg) = 0..(NSurf - 1))
          => idx' = << >>]_vars

\* C21 witness: remove() of every id, called on the selection all() had made, has run.
C21_Witness ==
    /\ lastOp = "remove"
    /\ script.prev = arange(NSurf)
    /\ Range(script.arg) = 0..(NSurf - 1)
    /\ idx = << >>

\* The same ordering asked of SurfaceSelection and of SurfaceMesh
\* (vedoTk/mesh_selection.py), whose remove() is setdiff1d and returns sorted ids.
C28_OrderKeptInBothEngines ==
    [][/\ lastOp' = "add" =>
            idx' = idx \o FirstSeen(SelectSeq(script'.arg, LAMBDA x : x \notin Range(idx)))
       /\ lastOp' = "remove" =>
            idx' = SelectSeq(idx, LAMBDA x : x \notin Range(script'.arg))]_vars

\* C28: SurfaceSelection.add() keeps the selected ids in their order and appends the
\* new ids in the order they first appear in the argument; SurfaceSelection.remove()
\* keeps the ids that stay selected in their order.
C28_OrderKeptInSurfaceSelection ==
    [][viewer = "apps" =>
        /\ lastOp' = "add" =>
             idx' = idx \o FirstSeen(SelectSeq(script'.arg, LAMBDA x : x \notin Range(idx)))
        /\ lastOp' = "remove" =>
             idx' = SelectSeq(idx, LAMBDA x : x \notin Range(script'.arg))]_vars

\* C28 witness: add() was called with ids of which one was selected and one was not,
\* and the selection it leaves is not in ascending order.
C28_Witness ==
    /\ viewer = "apps"
    /\ lastOp = "add"
    /\ Len(script.prev) > 0
    /\ Len(idx) > Len(script.prev)
    /\ Range(script.arg) \cap Range(script.prev) # {}
    /\ ~IsSorted(idx)

\* C20 (as claimed): invert() called twice in a row gives back the selection held
\* before the first call, as a set.
C20_InvertTwice ==
    [][(lastOp = "invert" /\ lastOp' = "invert") => Range(idx') = Range(script.prev)]_vars

\* It does for a selection of surface ids.
C20_InvertTwiceOnSurfaceIds ==
    [][(lastOp = "invert" /\ lastOp' = "invert" /\ InRange(script.prev, NSurf))
           => Range(idx') = Range(script.prev)]_vars

-----------------------------------------------------------------------------
(* The registration application (vedoTk/apps/registration.py): the Qt window with
   the Selection tab (viewer _Selection, two SurfaceSelection engines over surface
   meshes) and the Registration tab (viewer _Registration, the Register button).
   The widgets of a tab receive events only while the tab is shown. *)

appFrame == <<vvars, script, selection_file, log, cellsOnly, tools>>

InitRegistration ==
    /\ InitViewer
    /\ viewer = "apps"
    /\ idx_tetra = << >>
    /\ script = NoScript
    /\ InitDirectory

\* _SOFA_Registration.is_done
is_done(step, rigid) == IF rigid THEN step > RigidLast ELSE step > NonRigidLast

\* _Registration.add_markers: the markers are kept only when the shapes are equal
add_markers(m, src, tgt) ==
    IF Len(src) # Len(tgt) THEN [valid |-> FALSE, markers |-> m]
    ELSE [valid |-> TRUE, markers |-> [source |-> src, target |-> tgt]]

\* _QtApp.__change_tab_callback, on tabs.currentChanged
App_TabChange ==
    /\ \E i \in {0, 1} \ {tab} :
        /\ tab' = i
        /\ IF i = 1
           THEN LET r == add_markers(markers, source_selection, target_selection)
                IN  /\ markers' = r.markers
                    /\ register_button' = r.valid
                    /\ warned' = ~r.valid
           ELSE /\ UNCHANGED <<markers, register_button>>
                /\ warned' = FALSE
    /\ UNCHANGED <<source_selection, target_selection, timer, files, appFrame>>

\* _Selection.__callback_mouse_move: the cursor is a local of the handler
App_MouseMove ==
    /\ tab = 0
    /\ warned' = FALSE
    /\ UNCHANGED <<tab, register_button, source_selection, target_selection, markers, timer,
                   files, appFrame>>

\* _Selection.__callback_left_click in renderer at (0: source, 1: target)
App_LeftClick ==
    /\ tab = 0
    /\ \E at \in {0, 1}, ev \in Events :
        IF ev.actor /\ Len(ev.ids) > 0
        THEN /\ source_selection' = IF at = 0 THEN add(source_selection, ev.ids) ELSE source_selection
             /\ target_selection' = IF at = 0 THEN target_selection ELSE add(target_selection, ev.ids)
        ELSE UNCHANGED <<source_selection, target_selection>>
    /\ warned' = FALSE
    /\ UNCHANGED <<tab, register_button, markers, timer, files, appFrame>>

\* _Selection.__callback_right_click in renderer at
App_RightClick ==
    /\ tab = 0
    /\ \E at \in {0, 1}, ev \in Events :
        IF ev.actor /\ Len(ev.ids) > 0
        THEN /\ source_selection' = IF at = 0 THEN remove(source_selection, ev.ids) ELSE source_selection
             /\ target_selection' = IF at = 0 THEN target_selection ELSE remove(target_selection, ev.ids)
        ELSE UNCHANGED <<source_selection, target_selection>>
    /\ warned' = FALSE
    /\ UNCHANGED <<tab, register_button, markers, timer, files, appFrame>>

\* _Selection.clear_selection, the 'Clear Selection' button
App_Clear ==
    /\ tab = 0
    /\ source_selection' = clear
    /\ target_selection' = clear
    /\ warned' = FALSE
    /\ UNCHANGED <<tab, register_button, markers, timer, files, appFrame>>

\* _QtApp.__save_callback, the 'Save Selection' button; the dialog returns
\* 'selection.npy' or '' (cancelled)
save_callback ==
    /\ tab = 0
    /\ \E cancelled \in BOOLEAN :
        IF Len(source_selection) = 0
        THEN /\ warned' = FALSE
             /\ UNCHANGED files
        ELSE IF Len(source_selection) # Len(target_selection)
        THEN /\ warned' = TRUE
             /\ UNCHANGED files
        ELSE /\ warned' = FALSE
             /\ files' = IF cancelled THEN files
                         ELSE WriteFile(files, SelectionNpy, source_selection \o target_selection)
    /\ UNCHANGED <<tab, register_button, source_selection, target_selection, markers, timer>>

App_Save == save_callback /\ UNCHANGED appFrame

\* selections[:len(selections) // 2]
FirstHalf(a) == SubSeq(a, 1, Len(a) \div 2)

SecondHalfFromMiddle(a) == SubSeq(a, Len(a) \div 2, Len(a))
\* selections[len(selections) // 2:]
SecondHalf(a) == SubSeq(a, Len(a) \div 2 + 1, Len(a))

\* _QtApp.__load_callback, the 'Load Selection' button, with the file f of the
\* directory (_Selection.set_selection_idx: clear() then add() on both engines)
load_callback(f) ==
    /\ tab = 0
    /\ f \in DOMAIN files
    /\ f.ext = "npy"
    /\ source_selection' = add(clear, FirstHalf(files[f]))
    /\ target_selection' = add(clear, SecondHalf(files[f]))
    /\ warned' = FALSE
    /\ UNCHANGED <<tab, register_button, markers, timer, files>>

App_Load == (\E f \in DOMAIN files : load_callback(f)) /\ UNCHANGED appFrame

\* _QtApp.__register_callback -> _Registration.register: a new SOFA scene; with
\* gui the SOFA main loop runs to its end inside the call, else
\* __launch_in_vedo disables the button, adds a timer callback and creates a timer
register(rigid, gui) ==
    IF gui
    THEN /\ timer' = [timer EXCEPT !.idx_step = 0, !.rigid = rigid]
         /\ UNCHANGED register_button
    ELSE /\ timer' = [tid |-> TRUE,
                      leaked |-> timer.leaked + (IF timer.tid THEN 1 ELSE 0),
                      callbacks |-> timer.callbacks + 1,
                      idx_step |-> 0,
                      rigid |-> rigid]
         /\ register_button' = FALSE

\* The 'Register' button, which Qt lets the user press only while it is enabled
App_Register ==
    /\ tab = 1
    /\ register_button
    /\ timer.callbacks < MaxRuns
    /\ \E rigid \in BOOLEAN, gui \in BOOLEAN : register(rigid, gui)
    /\ warned' = FALSE
    /\ UNCHANGED <<tab, source_selection, target_selection, markers, files, appFrame>>

\* One timer_callback of __launch_in_vedo; st is the timer with the button
timer_callback(st) ==
    IF ~is_done(st.timer.idx_step, st.timer.rigid)
    THEN [st EXCEPT !.timer.idx_step = @ + 1]
    ELSE [timer |-> [st.timer EXCEPT !.tid = FALSE], button |-> TRUE]

\* A timer event runs every timer callback added so far, in the order of their addition
RECURSIVE TimerCallbacks(_, _)
TimerCallbacks(k, st) ==
    IF k = 0 THEN st ELSE TimerCallbacks(k - 1, timer_callback(st))

\* A live vtk timer fires
App_Tick ==
    /\ timer.tid \/ timer.leaked > 0
    /\ LET st == TimerCallbacks(timer.callbacks, [timer |-> timer, button |-> register_button])
       IN  /\ timer' = st.timer
           /\ register_button' = st.button
    /\ warned' = FALSE
    /\ UNCHANGED <<tab, source_selection, target_selection, markers, files, appFrame>>

NextRegistration ==
    \/ App_TabChange
    \/ App_MouseMove
    \/ App_LeftClick
    \/ App_RightClick
    \/ App_Clear
    \/ App_Save
    \/ App_Load
    \/ App_Register
    \/ App_Tick

SpecRegistration == InitRegistration /\ [][NextRegistration]_vars

\* The marker selections have equal counts.
CountsMatch == Len(source_selection) = Len(target_selection)

\* C11 (as claimed): whenever the Register button is enabled on the Registration
\* tab the two marker selections have equal counts, so after a mismatch found on
\* entering the tab the button stays disabled until the counts match again.
C11_RegisterOnlyWhenCountsMatch == (tab = 1 /\ register_button) => CountsMatch

\* It does hold as long as no registration has been run with the vedo timer.
C11_HoldsBeforeAnyTimerRun == timer.callbacks = 0 => C11_RegisterOnlyWhenCountsMatch

\* A run started with the vedo timer is in progress: the timer of self.tid is
\* alive and is_done() does not hold yet.
RunInProgress == timer.tid /\ ~is_done(timer.idx_step, timer.rigid)

\* C31 (as claimed): from the start of a run in vedo timer mode until is_done()
\* holds the Register button stays disabled, under any interleaving of timer
\* ticks and tab changes.
C31_DisabledWhileRunning == RunInProgress => ~register_button

\* C31 (as claimed, second half): no second run is started while one is in progress.
C31_NoSecondRunWhileRunning ==
    [][RunInProgress => timer'.callbacks = timer.callbacks]_vars

\* The timer ticks alone do keep the button disabled while the run is in progress:
\* it is the tab change that enables it.
C31_TicksKeepDisabled ==
    [][(RunInProgress /\ ~register_button /\ tab' = tab /\ RunInProgress')
           => ~register_button']_vars

-----------------------------------------------------------------------------
(* Scenario: markers are selected, Save Selection is pressed, the selections are
   edited again, and Load Selection reads the file back.  script.source and
   script.target are the selections held at the last Save that wrote the file,
   script.before the selections held when Load is pressed. *)

landmarkFrame == <<vvars, selection_file, log, cellsOnly, tools>>

InitLandmarks ==
    /\ InitViewer
    /\ viewer = "apps"
    /\ idx_tetra = << >>
    /\ script = [phase |-> "select", saved |-> FALSE, source |-> << >>, target |-> << >>,
                 before |-> << >>]
    /\ InitDirectory

LM_Edit ==
    /\ script.phase = "select"
    /\ (App_LeftClick \/ App_RightClick \/ App_Clear)

LM_Save ==
    /\ script.phase = "select"
    /\ save_callback
    /\ script' = IF files' # files
                 THEN [script EXCEPT !.saved = TRUE, !.source = source_selection,
                                     !.target = target_selection]
                 ELSE script
    /\ UNCHANGED landmarkFrame

LM_Load ==
    /\ script.phase = "select"
    /\ load_callback(SelectionNpy)
    /\ script' = [script EXCEPT !.phase = "loaded",
                                !.before = <<source_selection, target_selection>>]
    /\ UNCHANGED landmarkFrame

NextLandmarks ==
    \/ LM_Edit
    \/ LM_Save
    \/ LM_Load

SpecLandmarks == InitLandmarks /\ [][NextLandmarks]_vars

\* C33: Save Selection writes the source ids followed by the target ids, and only
\* when both selections have the same non-zero length; Load Selection of that file
\* restores the source and the target selection held at the Save, with the same
\* ids in the same order.
C33_LandmarksRoundTrip ==
    /\ [](script.phase = "loaded" =>
            /\ script.saved
            /\ source_selection = script.source
            /\ target_selection = script.target)
    /\ [][files' # files =>
            /\ Len(source_selection) = Len(target_selection)
            /\ Len(source_selection) > 0
            /\ files' = WriteFile(files, SelectionNpy, source_selection \o target_selection)]_vars

\* A file saved with two markers on each mesh, the second picked before the first
\* in id order, was loaded over other selections.
C33_Witness ==
    /\ script.phase = "loaded"
    /\ script.source = <<1, 0>>
    /\ script.target = <<0, 1>>
    /\ script.before = << <<0>>, << >> >>

-----------------------------------------------------------------------------
(* The Registration tab alone, with the presses of Register counted in
   script.runs: the vtk repeating timer created by __launch_in_vedo fires for as
   long as it is alive, which is the fairness condition of SpecRunLive. *)

InitRun ==
    /\ InitViewer
    /\ viewer = "apps"
    /\ idx_tetra = << >>
    /\ script = [phase |-> "run", runs |-> 0]
    /\ InitDirectory

\* _QtApp.__register_callback, at most MaxRuns times
Run_Register ==
    /\ tab = 1
    /\ register_button
    /\ script.runs < MaxRuns
    /\ \E rigid \in BOOLEAN, gui \in BOOLEAN : register(rigid, gui)
    /\ warned' = FALSE
    /\ script' = [script EXCEPT !.runs = @ + 1]
    /\ UNCHANGED <<tab, source_selection, target_selection, markers, files,
                   vvars, selection_file, log, cellsOnly, tools>>

NextRun ==
    \/ App_TabChange
    \/ App_LeftClick
    \/ Run_Register
    \/ App_Tick

SpecRun == InitRun /\ [][NextRun]_vars

SpecRunLive == SpecRun /\ WF_vars(App_Tick)

\* A timer event performed n simulation steps
Stepped(n) == timer'.idx_step = timer.idx_step + n

\* C32 (as claimed): each timer tick performs one simulation step while the step
\* index is at most the last index of the run; on the first tick after that the
\* timer is destroyed and Register is re-enabled, and no step is performed.
C32_OneStepPerTick ==
    [][timer'.idx_step > timer.idx_step => Stepped(1)]_vars

\* C32 (as claimed, termination): a run started in vedo timer mode always finishes.
C32_RunFinishes == timer.tid ~> ~timer.tid

\* The tick that finds is_done() destroys the timer of self.tid and enables the
\* button, and no step is performed while is_done() holds.
C32_DoneTickStops ==
    [][(timer.tid /\ is_done(timer.idx_step, timer.rigid) /\ timer' # timer)
           => (~timer'.tid /\ register_button' /\ Stepped(0))
              \/ timer'.idx_step = 0]_vars

\* In the first run there is one timer callback, and one step per tick.
C32_OneStepPerTickInFirstRun ==
    [][(timer.callbacks <= 1 /\ timer'.idx_step > timer.idx_step) => Stepped(1)]_vars

\* Every vtk timer created by a run is destroyed in the end.
C32_EveryTimerDestroyed == <>[](timer.leaked = 0)

-----------------------------------------------------------------------------
(* The legacy cell viewer, MeshSelection of src/mesh_selection.py: selected_cells
   is a Python list, in the order the cells were added.  In this section a file
   record names a file whose name starts with 'mesh_selection' (sfx <<1>>, ext
   "npy" is 'mesh_selection_1.npy').  script.recent lists the selected cells from
   the last one that entered the selection to the first. *)

legacyFrame == <<viewer, launched, idx_tetra, idx, cursor, history, history_idx, draw_mode,
                 pushed, dropped, selection_file, cellsOnly, app, extractor, probe, universe,
                 folder>>

\* The cell ids closest_point(return_cell_id=True) returns, and -1 (no cell)
CellIds == -1..(NCells - 1)

InitLegacyViewer ==
    /\ InitViewer
    /\ viewer = "apps"
    /\ idx_tetra = << >>
    /\ script = [phase |-> "legacy", recent |-> << >>]
    /\ InitDirectory

add_cellNoCheck(s, c) == IF c >= 0 THEN Append(s, c) ELSE s
\* MeshSelection.add_cell
add_cell(s, c) == IF c >= 0 /\ c \notin Range(s) THEN Append(s, c) ELSE s

\* MeshSelection.remove_cell: list.remove takes out the first occurrence
remove_cell(s, c) ==
    IF c >= 0 /\ c \in Range(s)
    THEN LET i == CHOOSE k \in 1..Len(s) : s[k] = c /\ \A j \in 1..(k - 1) : s[j] # c
         IN  SubSeq(s, 1, i - 1) \o SubSeq(s, i + 1, Len(s))
    ELSE s

\* MeshSelection.remove_last_cell: list.pop()
remove_last_cell(s) == IF Len(s) > 0 THEN SubSeq(s, 1, Len(s) - 1) ELSE s

\* MeshSelection.remove_all_cells
remove_all_cells == << >>

\* The cells of s2 by the time they entered the selection, the last first: r is
\* the list for s, and a handler adds at most one cell.
Recent(r, s, s2) ==
    LET new == Range(s2) \ Range(s)
        kept == SelectSeq(r, LAMBDA c : c \in Range(s2))
    IN  (IF new = {} THEN << >> ELSE << CHOOSE c \in new : TRUE >>) \o kept

\* What a handler leaves: the selection, the cursor, the mode, and its name
Leg_Result(sel, cur, drag, op) ==
    /\ legacy' = [selected_cells |-> sel, id_cursor |-> cur, drag_mode |-> drag]
    /\ script' = [script EXCEPT !.recent = Recent(@, legacy.selected_cells, sel)]
    /\ lastOp' = op
    /\ UNCHANGED <<files, log, legacyFrame>>

\* MeshSelection.__callback_mouse_move
Leg_MouseMove ==
    \E actor \in BOOLEAN, c \in CellIds :
        IF actor
        THEN Leg_Result(IF legacy.drag_mode THEN add_cell(legacy.selected_cells, c)
                        ELSE legacy.selected_cells,
                        c, legacy.drag_mode, "move")
        ELSE Leg_Result(legacy.selected_cells, -1, legacy.drag_mode, "move")

\* MeshSelection.__callback_left_click
Leg_LeftClick ==
    \E actor \in BOOLEAN, c \in CellIds :
        IF actor
        THEN Leg_Result(add_cell(legacy.selected_cells, c), c, legacy.drag_mode, "left")
        ELSE Leg_Result(legacy.selected_cells, legacy.id_cursor, legacy.drag_mode, "left")

\* MeshSelection.__callback_right_click
Leg_RightClick ==
    \E actor \in BOOLEAN, c \in CellIds :
        IF actor
        THEN Leg_Result(remove_cell(legacy.selected_cells, c), c, legacy.drag_mode, "right")
        ELSE Leg_Result(legacy.selected_cells, legacy.id_cursor, legacy.drag_mode, "right")

\* MeshSelection.__callback_key_press for 'd', 'z' and 'c'
Leg_KeyPress ==
    \E key \in {"d", "z", "c"} :
        IF key = "d"
        THEN Leg_Result(legacy.selected_cells, legacy.id_cursor, ~legacy.drag_mode, "d")
        ELSE IF key = "z" /\ Len(legacy.selected_cells) > 0
        THEN Leg_Result(remove_last_cell(legacy.selected_cells), legacy.id_cursor,
                        legacy.drag_mode, "remove_last_cell")
        ELSE IF key = "c"
        THEN Leg_Result(remove_all_cells, legacy.id_cursor, legacy.drag_mode, "remove_all_cells")
        ELSE Leg_Result(legacy.selected_cells, legacy.id_cursor, legacy.drag_mode, "z")

\* A call of add_cell, remove_cell, remove_last_cell or remove_all_cells by the
\* script that holds the viewer
Leg_Call ==
    \/ \E c \in CellIds :
           Leg_Result(add_cell(legacy.selected_cells, c), legacy.id_cursor, legacy.drag_mode,
                      "add_cell")
    \/ \E c \in CellIds :
           Leg_Result(remove_cell(legacy.selected_cells, c), legacy.id_cursor,
                      legacy.drag_mode, "remove_cell")
    \/ Leg_Result(remove_last_cell(legacy.selected_cells), legacy.id_cursor, legacy.drag_mode,
                  "remove_last_cell")
    \/ Leg_Result(remove_all_cells, legacy.id_cursor, legacy.drag_mode, "remove_all_cells")

NextLegacy ==
    \/ Leg_MouseMove
    \/ Leg_LeftClick
    \/ Leg_RightClick
    \/ Leg_KeyPress
    \/ Leg_Call

SpecLegacy == InitLegacyViewer /\ [][NextLegacy]_vars

\* MeshSelection.save, from the key 's' or called by the script: numpy.save adds
\* '.npy' to the name it is handed
Leg_Save ==
    /\ LET filename == Stem(SelectionNpy)
           nb_file == NbFile(files, filename)
           file == IF Exists(files, WithNpy(filename)) THEN Indexed(filename, nb_file)
                   ELSE filename
       IN  /\ \A k \in 1..Len(file.sfx) : file.sfx[k] <= MaxSuffix
           /\ files' = WriteFile(files, WithNpy(file), legacy.selected_cells)
           /\ log' = [overwrite |-> FALSE, target |-> filename, name |-> WithNpy(file),
                      nb_file |-> nb_file]
    /\ lastOp' = "save"
    /\ UNCHANGED <<legacy, script, legacyFrame>>

\* The user creates a file named 'mesh_selection' (no extension) in the mesh directory.
Leg_EnvCreate ==
    /\ ~Exists(files, Stem(SelectionNpy))
    /\ files' = WriteFile(files, Stem(SelectionNpy), << >>)
    /\ log' = NoSave
    /\ lastOp' = "env"
    /\ UNCHANGED <<legacy, script, legacyFrame>>

\* The user deletes a file of the mesh directory.
Leg_EnvDelete ==
    /\ \E f \in DOMAIN files : files' = [g \in DOMAIN files \ {f} |-> files[g]]
    /\ log' = NoSave
    /\ lastOp' = "env"
    /\ UNCHANGED <<legacy, script, legacyFrame>>

NextLegacyNaming ==
    \/ Leg_LeftClick
    \/ Leg_Save
    \/ Leg_EnvCreate
    \/ Leg_EnvDelete

SpecLegacyNaming == InitLegacyViewer /\ [][NextLegacyNaming]_vars

\* C34 (as claimed): the name save() chooses never names a file that exists, under
\* any sequence of saves, creations and deletions in the mesh directory.
C34_NeverOverwrites == [][lastOp' = "save" => ~Exists(files, log'.name)]_vars

\* The directory holds the files that k calls of save() write, and no other.
OnlySavedFiles(fs) ==
    \E k \in 0..(MaxSuffix + 1) :
        DOMAIN fs = (IF k > 0 THEN {SelectionNpy} ELSE {})
                        \cup {WithNpy(Indexed(Stem(SelectionNpy), j)) : j \in 1..(k - 1)}

\* It does not while the directory holds what the calls of save() wrote, and nothing else.
C34_NoOverwriteOfOwnFiles ==
    [][(OnlySavedFiles(files) /\ lastOp' = "save") => ~Exists(files, log'.name)]_vars

\* C35: selected_cells holds no cell twice and no negative id, and
\* remove_last_cell takes out exactly the selected cell that entered the selection
\* last (nothing from an empty selection).
C35_LegacySelection ==
    /\ [](/\ NoDup(legacy.selected_cells)
          /\ \A k \in 1..Len(legacy.selected_cells) : legacy.selected_cells[k] >= 0)
    /\ [][lastOp' = "remove_last_cell" =>
            IF legacy.selected_cells = << >>
            THEN legacy'.selected_cells = << >>
            ELSE /\ Range(legacy'.selected_cells)
                        = Range(legacy.selected_cells) \ {Head(script.recent)}
                 /\ Len(legacy'.selected_cells) = Len(legacy.selected_cells) - 1]_vars

\* remove_last_cell has taken out cell 0, which was picked after cell 1.
C35_Witness ==
    /\ lastOp = "remove_last_cell"
    /\ legacy.selected_cells = <<1>>
    /\ legacy.id_cursor = 0
    /\ script.recent = <<1>>

-----------------------------------------------------------------------------
(* FolderInspection (vedoTk/apps/folder_inspection.py).  A directory is the list of
   its files in the order of sorted(listdir(path)), and the name of a file is its
   place in that list.  A file has an extension ("txt" stands for every extension
   the viewer does not read) and a content: "points" (3D data with at least one
   point), "empty" (3D data with no point), "invalid" (what numpy.load or Points
   refuse with ValueError, what Mesh and TetMesh refuse with AttributeError) or
   "nothing" (a file of zero bytes, for which numpy.load raises EOFError and the
   vtk readers return a mesh with no point). *)

folderFrame == <<vvars, script, directory, cellsOnly, app, extractor, probe, universe, legacy>>

FileKinds == [ext : {"obj", "npy", "txt"}, content : {"points", "empty", "invalid", "nothing"}]

Listings == UNION {[1..n -> FileKinds] : n \in 0..MaxFiles}

\* extensions = ['obj', 'vtk', 'stl', 'npy'] if extension is None else [extension.split('.')[-1]]
extensions(extension) ==
    IF extension = "None" THEN {"obj", "vtk", "stl", "npy"} ELSE {extension}

\* The filtered files, as places in the listing
filtered(listing, extension) ==
    SelectSeq([k \in 1..Len(listing) |-> k], LAMBDA k : listing[k].ext \in extensions(extension))

\* The body of the "Load files" loop for one file: the exception that leaves the
\* constructor, else whether the actor is None and the number of its points (0 or 1)
load_file(f) ==
    IF f.ext = "npy" /\ f.content = "nothing"
    THEN [raised |-> "EOFError", none |-> TRUE, npoints |-> 0]
    ELSE IF f.content = "invalid" THEN [raised |-> "none", none |-> TRUE, npoints |-> 0]
    ELSE IF f.content = "points" THEN [raised |-> "none", none |-> FALSE, npoints |-> 1]
    ELSE [raised |-> "none", none |-> FALSE, npoints |-> 0]

\* if actor is not None and actor.npoints > 0
kept(f) == ~load_file(f).none /\ load_file(f).npoints > 0

modNoWrap(a, n) == IF a < 0 THEN 0 ELSE a % n
\* Python's a % n for n > 0
mod(a, n) == a % n

InitInspection ==
    /\ InitViewer
    /\ script = NoScript
    /\ InitDirectory

\* FolderInspection(path, extension) up to show(): the actor made from the file k is
\* written [file |-> k]
FI_Construct ==
    /\ folder.op = "none"
    /\ \E listing \in Listings, extension \in {"None", "obj", "npy"} :
        LET files_ == filtered(listing, extension)
            raising == SelectSeq(files_, LAMBDA k : load_file(listing[k]).raised # "none")
            loaded == SelectSeq(files_, LAMBDA k : kept(listing[k]))
        IN  folder' =
                IF raising # << >>
                THEN [constructed |-> FALSE, op |-> "raised",
                      error |-> load_file(listing[Head(raising)]).raised,
                      listing |-> listing, extension |-> extension]
                ELSE IF Len(loaded) = 0
                THEN [constructed |-> FALSE, op |-> "raised", error |-> "ValueError",
                      listing |-> listing, extension |-> extension]
                ELSE [constructed |-> TRUE, op |-> "show", error |-> "none",
                      listing |-> listing, extension |-> extension,
                      actors |-> [i \in 1..Len(loaded) |-> [file |-> loaded[i]]],
                      filenames |-> loaded,
                      idx |-> 0,
                      shown |-> {[file |-> loaded[1]]},
                      text |-> loaded[1],
                      before |-> 0]
    /\ UNCHANGED folderFrame

\* The update callback of __get_callback(i), on the button '<' (i = -1) or '>' (i = +1)
FI_Press ==
    /\ folder.constructed
    /\ \E i \in {-1, 1} :
        LET idx2 == mod(folder.idx + i, Len(folder.actors))
        IN  folder' = [folder EXCEPT
                         !.shown = (@ \ {folder.actors[folder.idx + 1]})
                                       \cup {folder.actors[idx2 + 1]},
                         !.idx = idx2,
                         !.text = folder.filenames[idx2 + 1],
                         !.op = IF i = 1 THEN ">" ELSE "<",
                         !.before = folder.idx]
    /\ UNCHANGED folderFrame

\* The window is closed (show() returns), or the exception of the constructor is
\* handled: the next viewer can be constructed
FI_Close ==
    /\ folder.op # "none"
    /\ folder' = [constructed |-> FALSE, op |-> "none"]
    /\ UNCHANGED folderFrame

NextFolder ==
    \/ FI_Construct
    \/ FI_Press
    \/ FI_Close

SpecFolder == InitInspection /\ [][NextFolder]_vars

\* C36: after any sequence of '<' and '>' presses the index is within the list of
\* actors, actors[idx] is the one actor displayed and the label shows
\* filenames[idx]; '>' followed by '<' returns to the same actor.
C36_OneActorShown ==
    /\ [](folder.constructed =>
            /\ 0 <= folder.idx
            /\ folder.idx < Len(folder.actors)
            /\ folder.shown = {folder.actors[folder.idx + 1]}
            /\ folder.text = folder.filenames[folder.idx + 1])
    /\ [][(folder.constructed /\ folder.op = ">" /\ folder'.constructed /\ folder'.op = "<")
            => /\ folder'.idx = folder.before
               /\ folder'.shown = {folder.actors[folder.before + 1]}]_vars

\* '<' was pressed on the first of MaxFiles actors: the index wrapped to the last.
C36_Witness ==
    /\ folder.constructed
    /\ Len(folder.actors) = MaxFiles
    /\ folder.op = "<"
    /\ folder.before = 0
    /\ folder.idx = MaxFiles - 1

\* The directory holds a file that the viewer keeps: one of the requested
\* extension (of a known extension when none is requested) with at least one point.
Loadable(listing, extension) ==
    \E k \in 1..Len(listing) :
        listing[k].ext \in extensions(extension) /\ listing[k].content = "points"

\* What C37 says of a construction that has returned or raised
ConstructionAsClaimed ==
    IF ~Loadable(folder.listing, folder.extension)
    THEN ~folder.constructed /\ folder.error = "ValueError"
    ELSE /\ folder.constructed
         /\ Len(folder.actors) = Len(folder.filenames)
         /\ Len(folder.actors) >= 1
         /\ \A i \in 1..Len(folder.actors) : folder.actors[i].file = folder.filenames[i]

\* C37 (as claimed): the construction raises ValueError when the directory holds no
\* loadable, non-empty 3D file of the requested extension; otherwise the actors and
\* the file names are two lists of the same length, at least 1, that correspond
\* entry by entry.
C37_ConstructionOutcome == folder.op # "none" => ConstructionAsClaimed

\* It does when no file of zero bytes with the extension npy is among the filtered files.
C37_HoldsWithoutEmptyNpyFile ==
    (/\ folder.op # "none"
     /\ \A k \in 1..Len(folder.listing) :
            ~(/\ folder.listing[k].ext \in extensions(folder.extension)
              /\ folder.listing[k].ext = "npy"
              /\ folder.listing[k].content = "nothing"))
        => ConstructionAsClaimed

-----------------------------------------------------------------------------
(* Scenario: N operations, N times Ctrl+z, N times Ctrl+y in vedoTk.apps.MeshSelection.
   script.n counts the operations, script.k the undos and then the redos, and
   script.final is the selection held when the first Ctrl+z is pressed. *)

InitRoundTrip ==
    /\ InitViewer
    /\ InitDirectory
    /\ viewer = "apps"
    /\ script = [phase |-> "edit", n |-> 0, k |-> 0, final |-> << >>]

RT_Launch == Launch /\ UNCHANGED others

RT_Operation ==
    /\ script.phase = "edit"
    /\ script.n < MaxOps
    /\ (LeftClick \/ RightClick \/ KeyClear \/ KeyAll \/ KeyInvert)
    /\ script' = [script EXCEPT !.n = @ + 1]
    /\ UNCHANGED <<directory, elsewhere>>

RT_Undo ==
    /\ script.phase \in {"edit", "undo"}
    /\ script.k < script.n
    /\ KeyUndo
    /\ script' = [phase |-> "undo", n |-> script.n, k |-> script.k + 1,
                  final |-> IF script.phase = "edit" THEN idx ELSE script.final]
    /\ UNCHANGED <<directory, elsewhere>>

RT_Redo ==
    /\ \/ script.phase = "undo" /\ script.k = script.n
       \/ script.phase = "redo" /\ script.k < script.n
    /\ KeyRedo
    /\ script' = [script EXCEPT !.phase = "redo",
                                !.k = IF script.phase = "undo" THEN 1 ELSE @ + 1]
    /\ UNCHANGED <<directory, elsewhere>>

NextRoundTrip == RT_Launch \/ RT_Operation \/ RT_Undo \/ RT_Redo

SpecRoundTrip == InitRoundTrip /\ [][NextRoundTrip]_vars

\* C1 (as claimed): after N operations, N undos leave the empty initial selection
\* and N redos after them leave the selection held before the first undo.
C1_UndoRedoRoundTrip ==
    /\ (script.phase = "undo" /\ script.k = script.n) => idx = << >>
    /\ (script.phase = "redo" /\ script.k = script.n) => idx = script.final

\* The round trip does hold on a surface mesh.
C1_RoundTripOnSurfaceMesh == ~HasTetra(idx_tetra) => C1_UndoRedoRoundTrip

-----------------------------------------------------------------------------
(* Scenario: one brush stroke in vedoTk.apps.MeshSelection.  After any events,
   Ctrl+d enters draw mode (script.before is the selection at that moment and
   script.kept the number of snapshots up to the cursor), hovers add the ids
   script.ids, Ctrl+d leaves draw mode and Ctrl+z follows. *)

InitStroke ==
    /\ InitViewer
    /\ InitDirectory
    /\ viewer = "apps"
    /\ script = [phase |-> "edit", before |-> << >>, ids |-> {}, kept |-> 0]

ST_Event ==
    /\ script.phase = "edit"
    /\ \/ Launch \/ MouseMove \/ LeftClick \/ RightClick \/ KeyUndo \/ KeyRedo
       \/ KeyClear \/ KeyDraw \/ KeyAll \/ KeyInvert
    /\ UNCHANGED others

ST_Enter ==
    /\ script.phase = "edit"
    /\ ~draw_mode
    /\ KeyDraw
    /\ script' = [phase |-> "stroke", before |-> idx, ids |-> {}, kept |-> history_idx + 1]
    /\ UNCHANGED <<directory, elsewhere>>

ST_Hover ==
    /\ script.phase = "stroke"
    /\ MouseMove
    /\ script' = [script EXCEPT !.ids = @ \cup Range(cursor')]
    /\ UNCHANGED <<directory, elsewhere>>

ST_Exit ==
    /\ script.phase = "stroke"
    /\ KeyDraw
    /\ script' = [script EXCEPT !.phase = "exited"]
    /\ UNCHANGED <<directory, elsewhere>>

ST_Undo ==
    /\ script.phase = "exited"
    /\ KeyUndo
    /\ script' = [script EXCEPT !.phase = "undone"]
    /\ UNCHANGED <<directory, elsewhere>>

NextStroke == ST_Event \/ ST_Enter \/ ST_Hover \/ ST_Exit \/ ST_Undo

SpecStroke == InitStroke /\ [][NextStroke]_vars

\* C2 (as claimed): leaving draw mode adds exactly one history entry, whose
\* selection is the selection before the stroke united with the hovered ids; the
\* Ctrl+z after it leaves none of the hovered ids that were not selected before.
C2_DrawModeBatching ==
    /\ script.phase = "exited" =>
          /\ Len(history) = script.kept + 1
          /\ history_idx = script.kept
          /\ Range(pushed[Len(pushed)]) = Range(script.before) \cup script.ids
          /\ history[Len(history)] = selected_idx(idx_tetra, pushed[Len(pushed)])
    /\ script.phase = "undone" =>
          Range(idx) \cap (script.ids \ Range(script.before)) = {}

\* The batching does hold on a surface mesh.
C2_BatchingOnSurfaceMesh == ~HasTetra(idx_tetra) => C2_DrawModeBatching

-----------------------------------------------------------------------------
(* Claims on the viewers (specification Spec) *)

\* A step in which an event handler pushed onto the history.
PushStep ==
    /\ launched
    /\ lastOp' \notin {"undo", "redo"}
    /\ <<history, history_idx>>' # <<history, history_idx>>

\* C4 (as claimed): an undo or a redo that moves the cursor sets the internal
\* selection to the internal selection held when history[history_idx] was pushed.
C4_UndoRedoRestoresPushed ==
    [][(lastOp' \in {"undo", "redo"} /\ history_idx' # history_idx)
          => idx' = pushed'[history_idx' + 1]]_vars

\* C7: a push keeps the snapshots up to the cursor, discards every snapshot after
\* it and leaves the cursor on the last index; with the cursor on the last index,
\* Ctrl+y changes neither the selection nor the history nor the cursor.
C7_LinearHistory ==
    [][/\ PushStep =>
            /\ history_idx' = Len(history') - 1
            /\ Len(history') > history_idx + 1
            /\ SubSeq(history', 1, history_idx + 1) = SubSeq(history, 1, history_idx + 1)
            /\ \A k \in (history_idx + 2)..Len(history') :
                   history'[k] = selected_idx(idx_tetra, idx')
       /\ (lastOp' = "redo" /\ history_idx = Len(history) - 1) =>
            UNCHANGED <<idx, history, history_idx>>]_vars

\* C7 witness: a push has just discarded snapshots that an undo had left after the cursor.
C7_Witness == dropped > 0 /\ history_idx = Len(history) - 1 /\ Len(history) >= 2

\* C8 (as claimed): from construction on, the cursor is a valid index into the history.
C8_CursorValid == 0 <= history_idx /\ history_idx < Len(history)

\* C8 (amended): once launch() has run, the cursor is a valid index into the history.
C8_CursorValidAfterLaunch == launched => (0 <= history_idx /\ history_idx < Len(history))

\* C8 witness: undo has walked the cursor of a full history back to its first entry.
C8_Witness == launched /\ lastOp = "undo" /\ history_idx = 0 /\ Len(history) = MaxHist

\* C9 (as claimed): the internal selection holds no id twice and only ids of
\* surface vertices.
C9_SelectionValid == NoDup(idx) /\ InRange(idx, NSurf)


\* The handler has pushed exactly one history entry, right after the cursor.
OneEntryPushed ==
    /\ Len(history') = history_idx + 2
    /\ history_idx' = history_idx + 1
    /\ SubSeq(history', 1, history_idx + 1) = SubSeq(history, 1, history_idx + 1)

\* C13 (as claimed): every left click that resolves to ids unions them into the
\* selection and pushes exactly one history entry, draw mode on or off.
C13_LeftClickAlwaysPushes ==
    [][lastOp' = "left" => /\ Range(idx') = Range(idx) \cup Range(cursor')
                           /\ OneEntryPushed]_vars

\* C13 (amended): such a click unions the ids into the selection; it pushes exactly
\* one entry in MeshPointsSelection and, with draw mode off, in MeshSelection;
\* with draw mode on MeshSelection pushes none, and no entry is pushed when the
\* display update raises because a selected id is no surface vertex.
C13_LeftClickPushPolicy ==
    [][lastOp' = "left" =>
          /\ Range(idx') = Range(idx) \cup Range(cursor')
          /\ IF (viewer = "apps" /\ draw_mode) \/ ~InRange(idx', NSurf)
             THEN UNCHANGED <<history, history_idx>>
             ELSE OneEntryPushed]_vars

\* C13 witness: MeshSelection after a left click made in draw mode.
C13_Witness ==
    /\ viewer = "apps"
    /\ draw_mode
    /\ lastOp = "left"
    /\ Len(idx) > 0

\* C14 (as claimed): a right click that resolves to ids commits exactly one history
\* entry in MeshSelection and in MeshPointsSelection (so that one Ctrl+z goes back
\* to the entry of before the click).
C14_RightClickOneEntry == [][lastOp' = "right" => OneEntryPushed]_vars

\* In MeshSelection it does, as long as the selection holds surface ids.
C14_OneEntryInApps ==
    [][(lastOp' = "right" /\ viewer = "apps" /\ InRange(idx', NSurf)) => OneEntryPushed]_vars

\* C18: Ctrl+z with the cursor at 0, Ctrl+y with the cursor at the last entry and
\* a click that resolves no id (no actor, or no id returned) leave the selection,
\* the history and the history cursor as they are; the handlers run to their end.
C18_MisuseIsNoOp ==
    [][(\/ lastOp' \in {"left miss", "right miss"}
        \/ (lastOp' = "undo" /\ history_idx <= 0)
        \/ (lastOp' = "redo" /\ history_idx >= Len(history) - 1))
           => UNCHANGED <<idx, history, history_idx>>]_vars

\* C18 witness: a click on empty space while every vertex is selected and the
\* cursor is at the last of several entries (where Ctrl+y is misuse too).
C18_Witness ==
    /\ lastOp = "right miss"
    /\ Len(idx) = NSurf
    /\ history_idx = Len(history) - 1
    /\ Len(history) > 1

\* C17: a mouse move while draw mode is off changes the cursor preview only: the
\* committed selection (ids of the point viewers, cells of the cell viewer), the
\* history list and the history cursor stay as they are.
C17_HoverOnlyPreviews ==
    [][(lastOp' = "move" /\ ~draw_mode)
         => UNCHANGED <<idx, selection, undo, history, history_idx>>]_vars

\* C17 witness: draw mode is off, something is selected, and a hover has put ids that
\* are not selected under the cursor.
C17_Witness ==
    /\ lastOp = "move"
    /\ ~draw_mode
    /\ \/ viewer = "cells" /\ selection # {} /\ cursor # {} /\ cursor \cap selection = {}
       \/ viewer # "cells" /\ Len(idx) > 0 /\ Len(cursor) > 0 /\ Range(cursor) \cap Range(idx) = {}

\* C27: the surface-to-volume map of a tetrahedral mesh has one entry per surface
\* vertex, every entry is an index of a volumetric vertex, and no handler (click add
\* and remove, clear, select all, invert, undo and redo through the setter, the
\* display update) changes it.
C27_MapFixed ==
    /\ [](HasTetra(idx_tetra) => Len(idx_tetra) = NSurf /\ InRange(idx_tetra, NVol))
    /\ [][idx_tetra' = idx_tetra]_vars

\* C27 witness: on a tetrahedral mesh, an undo has put a snapshot back through the
\* setter after clicks and key presses changed the selection.
C27_Witness ==
    /\ HasTetra(idx_tetra)
    /\ lastOp = "undo"
    /\ Len(history) = MaxHist
    /\ Len(idx) > 0

\* C30 (as claimed): in MeshSelection, after launch() and with draw mode off, the
\* exported selection is the snapshot at the history cursor.
C30_ExportIsCurrentSnapshot ==
    (viewer = "apps" /\ launched /\ ~draw_mode)
        => /\ SelectedDefined(idx_tetra, idx)
           /\ selected_idx(idx_tetra, idx) = ListAt(history, history_idx)

\* It is on a surface mesh, where snapshots and internal selection are in one index space.
C30_OnSurfaceMesh ==
    (viewer = "apps" /\ launched /\ ~draw_mode /\ ~HasTetra(idx_tetra))
        => selected_idx(idx_tetra, idx) = ListAt(history, history_idx)

\* C25: no handler changes a snapshot that stays in the history: the entries up to
\* the cursor are kept as they are, and the history changes only by a push, which
\* drops the entries after the cursor and appends.
C25_SnapshotsImmutable ==
    [][LET keep == IF history_idx + 1 <= Len(history) THEN history_idx + 1 ELSE Len(history)
       IN  /\ Len(history') >= keep
           /\ SubSeq(history', 1, keep) = SubSeq(history, 1, keep)
           /\ history' # history => Len(history') > keep /\ history_idx' = Len(history') - 1]_vars

\* C25 witness: the history is full of distinct snapshots, an undo has moved the
\* cursor back and set a selection that differs from the last snapshot.
C25_Witness ==
    /\ lastOp = "undo"
    /\ Len(history) = MaxHist
    /\ history_idx < Len(history) - 1
    /\ NoDup(history)
    /\ Len(idx) > 0
    /\ idx # history[Len(history)]

====
